---- MODULE Spec2Model ----
(***************************************************************************)
(* Model of the job-finder ingestion pipeline: the SQLite job store        *)
(* (job_finder/storage.py), the orchestrator (job_finder/main.py), the     *)
(* source adapters (job_finder/scrapers/*.py), resume matching             *)
(* (job_finder/matching.py) and location normalisation                     *)
(* (job_finder/location_utils.py).                                         *)
(*                                                                         *)
(* Python values are encoded as follows.                                   *)
(*   None            the empty tuple <<>>                                  *)
(*   a present value a one-element tuple <<x>> where a field is Optional   *)
(*   str             a TLA+ string, read character by character with       *)
(*                   SubSeq; the fields of a posting are tuples of         *)
(*                   one-character strings                                 *)
(*   datetime        a natural number (a clock reading)                    *)
(*   list            a sequence                                            *)
(***************************************************************************)
EXTENDS Integers, Sequences, FiniteSets, TLC

\* ------------------------------------------------------------------ bounds
\* Number of ingestion cycles started in one behaviour (all processes).
MaxCycles == 3
\* Number of requests one fetch_jobs call sends to its primary endpoint when
\* the source may answer anything.
MaxRequests == 3
\* Number of requests after which a fetch_jobs call that is still looping
\* against a scripted source is given up as not terminating.
RequestLimit == 300

\* ---------------------------------------------------------------- universe
\* Two schedulers / dashboards may run cycles against the same jobs.db.
Procs == {1, 2}

None == <<>>

\* What the sources serve in one fetch, each posting as
\* <<company, id, version>>: the opening ("acme", "123") is served with two
\* different contents, a listing may repeat an identity pair, and another
\* source uses the id "123" too.
Listings == {<<(<<"acme", "123", 1>>), (<<"acme", "456", 1>>)>>,
             <<(<<"acme", "123", 2>>), (<<"globex", "123", 2>>)>>,
             <<(<<"acme", "123", 1>>), (<<"acme", "123", 2>>)>>}

Titles == <<(<<"P", "M">>), (<<"S", "W", "E">>)>>
Locations == <<(<<"N", "Y">>), (<<"S", "F">>)>>
Departments == <<(<<>>), (<<"R", "D">>)>>
PostedDates == <<None, (<<7>>)>>
Descriptions == <<(<<"d1">>), (<<"d2">>)>>

\* models.py Job: the dataclass built by an adapter at fetch time.
\* first_seen is the default_factory datetime.now of the construction.
Job(company, id, v, now) ==
    [id |-> id, company |-> company, title |-> Titles[v],
     location |-> Locations[v], url |-> <<"url", company, id, v>>,
     department |-> Departments[v], posted_date |-> PostedDates[v],
     first_seen |-> now, description |-> Descriptions[v]]

\* The elements of s at the positions in keep, in the order of s.
RECURSIVE Kept(_, _, _)
Kept(s, keep, i) ==
    IF i > Len(s) THEN <<>>
    ELSE (IF i \in keep THEN <<s[i]>> ELSE <<>>) \o Kept(s, keep, i + 1)

\* The batches one cycle can hand to the store at clock reading now: what
\* fetch_all_jobs returned, less the postings filter_jobs dropped.
Batches(now) ==
    {[i \in DOMAIN b |-> Job(b[i][1], b[i][2], b[i][3], now)] :
        b \in UNION {{Kept(l, keep, 1) : keep \in SUBSET DOMAIN l} :
                        l \in Listings}}

\* ------------------------------------------------------------ conversions
\* datetime.isoformat(): the TEXT written to posted_date / first_seen.
isoformat(d) == <<"iso", d>>
\* datetime.fromisoformat(): parses the TEXT read back from a row.
fromisoformat(s) == s[2]

\* ------------------------------------------------------------------ store
\* The jobs table is a set of rows; PRIMARY KEY (id, company) is enforced by
\* insert_row, not by the representation.
row_of(job) ==
    [id |-> job.id, company |-> job.company, title |-> job.title,
     location |-> job.location, url |-> job.url,
     department |-> job.department,
     posted_date |-> IF job.posted_date # None
                     THEN isoformat(job.posted_date[1]) ELSE None,
     first_seen |-> isoformat(job.first_seen)]

\* Variant: INSERT OR REPLACE, the new row overwrites the stored one.
insert_row_replace(st, row) ==
    [ok |-> TRUE,
     store |-> {r \in st : ~(r.id = row.id /\ r.company = row.company)}
                 \cup {row}]

\* Variant: a table declared without PRIMARY KEY (id, company).
insert_row_unchecked(st, row) ==
    [ok |-> TRUE, store |-> st \cup {row}]

\* INSERT INTO jobs ... : sqlite3.IntegrityError when the primary key exists.
insert_row(st, row) ==
    IF \E r \in st : r.id = row.id /\ r.company = row.company
    THEN [ok |-> FALSE, store |-> st]
    ELSE [ok |-> TRUE, store |-> st \cup {row}]

\* Variant: the WHERE clause is missing.
get_known_job_ids_any_company(st, company) ==
    {r.id : r \in st}

\* SELECT id FROM jobs WHERE company = ?
get_known_job_ids(st, company) ==
    {r.id : r \in {x \in st : x.company = company}}

\* Job(...) built from a row by get_job / get_all_jobs; description is not a
\* column, so the dataclass default None is used.
job_of_row(r) ==
    [id |-> r.id, company |-> r.company, title |-> r.title,
     location |-> r.location, url |-> r.url, department |-> r.department,
     posted_date |-> IF r.posted_date # None
                     THEN <<fromisoformat(r.posted_date)>> ELSE None,
     first_seen |-> fromisoformat(r.first_seen),
     description |-> None]

\* SELECT * FROM jobs WHERE id = ? AND company = ?; fetchone().
\* The result is the set of Jobs the call may return: empty stands for None.
get_job(st, job_id, company) ==
    {job_of_row(r) : r \in {x \in st : x.id = job_id /\ x.company = company}}

\* Variant: the try/except encloses the whole loop, so the first
\* IntegrityError ends the insertion.
RECURSIVE add_jobs_from_stop(_, _, _, _)
add_jobs_from_stop(st, jobs, i, new_jobs) ==
    IF i > Len(jobs)
    THEN [store |-> st, new_jobs |-> new_jobs, raised |-> FALSE]
    ELSE LET r == insert_row(st, row_of(jobs[i]))
         IN IF r.ok
            THEN add_jobs_from_stop(r.store, jobs, i + 1,
                                    Append(new_jobs, jobs[i]))
            ELSE [store |-> st, new_jobs |-> new_jobs, raised |-> FALSE]

\* One iteration of the loop of add_jobs: try INSERT, append on success,
\* swallow IntegrityError.
RECURSIVE add_jobs_from(_, _, _, _)
add_jobs_from(st, jobs, i, new_jobs) ==
    IF i > Len(jobs)
    THEN [store |-> st, new_jobs |-> new_jobs, raised |-> FALSE]
    ELSE LET r == insert_row(st, row_of(jobs[i]))
         IN IF r.ok
            THEN add_jobs_from(r.store, jobs, i + 1, Append(new_jobs, jobs[i]))
            ELSE add_jobs_from(st, jobs, i + 1, new_jobs)

\* add_jobs(jobs): one transaction, committed at the end.
add_jobs(st, jobs) == add_jobs_from(st, jobs, 1, <<>>)

\* Variant: only the company of the first posting is looked up.
company_order_first(jobs, i, acc) ==
    IF jobs = <<>> THEN <<>> ELSE <<jobs[1].company>>

\* jobs_by_company of find_new_jobs: the companies in order of first
\* appearance (dict insertion order).
RECURSIVE company_order(_, _, _)
company_order(jobs, i, acc) ==
    IF i > Len(jobs) THEN acc
    ELSE IF \E k \in 1..Len(acc) : acc[k] = jobs[i].company
         THEN company_order(jobs, i + 1, acc)
         ELSE company_order(jobs, i + 1, Append(acc, jobs[i].company))

jobs_of_company(jobs, company) ==
    SelectSeq(jobs, LAMBDA j : j.company = company)

\* The inner loop of find_new_jobs for one company.
new_of_company(st, jobs, company) ==
    LET known_ids == get_known_job_ids(st, company)
    IN SelectSeq(jobs_of_company(jobs, company),
                 LAMBDA j : j.id \notin known_ids)

\* find_new_jobs(jobs) run without interference from another writer.
RECURSIVE find_new_over(_, _, _, _)
find_new_over(st, jobs, companies, acc) ==
    IF companies = <<>> THEN acc
    ELSE find_new_over(st, jobs, Tail(companies),
                       acc \o new_of_company(st, jobs, Head(companies)))

find_new_jobs(st, jobs) ==
    IF jobs = <<>> THEN <<>>
    ELSE find_new_over(st, jobs, company_order(jobs, 1, <<>>), <<>>)

\* ----------------------------------------------------- filters (models.py)
UpperCase == <<"A", "B", "C", "D", "E", "F", "G", "H", "I", "J", "K", "L", "M",
               "N", "O", "P", "Q", "R", "S", "T", "U", "V", "W", "X", "Y", "Z">>
LowerCase == <<"a", "b", "c", "d", "e", "f", "g", "h", "i", "j", "k", "l", "m",
               "n", "o", "p", "q", "r", "s", "t", "u", "v", "w", "x", "y", "z">>

\* str.lower(), character by character.
lower(str) ==
    [i \in DOMAIN str |->
        IF \E k \in DOMAIN UpperCase : UpperCase[k] = str[i]
        THEN LowerCase[CHOOSE k \in DOMAIN UpperCase : UpperCase[k] = str[i]]
        ELSE str[i]]

\* The Python test `sub in str` on strings.
contains(str, sub) ==
    \E k \in 0..(Len(str) - Len(sub)) : SubSeq(str, k + 1, k + Len(sub)) = sub

\* Job.matches_keywords
matches_keywords(job, keywords) ==
    IF keywords = <<>> THEN TRUE
    ELSE \E k \in DOMAIN keywords : contains(lower(job.title), lower(keywords[k]))

\* Job.matches_locations
matches_locations(job, locations) ==
    IF locations = <<>> THEN TRUE
    ELSE \E k \in DOMAIN locations :
             contains(lower(job.location), lower(locations[k]))

\* Variant: the location filter is not applied.
filter_jobs_keywords_only(jobs, config) ==
    SelectSeq(jobs, LAMBDA job :
        config.keywords # <<>> => matches_keywords(job, config.keywords))

\* filter_jobs(jobs, config)
filter_jobs(jobs, config) ==
    SelectSeq(jobs, LAMBDA job :
        /\ (config.keywords # <<>> => matches_keywords(job, config.keywords))
        /\ (config.locations # <<>> => matches_locations(job, config.locations)))

\* --------------------------------------------- maintenance (storage.py)
\* str.lower() / the folding of COLLATE NOCASE on a name.
LowerOf == [c \in {UpperCase[k] : k \in DOMAIN UpperCase} |->
               LowerCase[CHOOSE k \in DOMAIN UpperCase : UpperCase[k] = c]]
\* The lower-case letters, each with its capital.
UpperOf == [c \in {LowerCase[k] : k \in DOMAIN LowerCase} |->
               UpperCase[CHOOSE k \in DOMAIN LowerCase : LowerCase[k] = c]]
RECURSIVE str_lower(_)
str_lower(s) ==
    IF Len(s) = 0 THEN ""
    ELSE IF Len(s) = 1 THEN (IF s \in DOMAIN LowerOf THEN LowerOf[s] ELSE s)
    ELSE LET h == Len(s) \div 2
         IN str_lower(SubSeq(s, 1, h)) \o str_lower(SubSeq(s, h + 1, Len(s)))

\* Variant: DELETE FROM jobs, without the WHERE clause.
delete_all_jobs(st, company) ==
    [store |-> {}, rowcount |-> Cardinality(st)]

\* DELETE FROM jobs WHERE company = ? COLLATE NOCASE; returns cursor.rowcount.
delete_jobs_by_company(st, company) ==
    LET folded == str_lower(company)
        hits == {r \in st : str_lower(r.company) = folded}
    IN [store |-> st \ hits, rowcount |-> Cardinality(hits)]

\* get_all_jobs(company): SELECT * FROM jobs [WHERE company = ? COLLATE
\* NOCASE] ORDER BY first_seen DESC, each row turned into a Job. The postings
\* are given as a set: the order among rows of one first_seen is open.
get_all_jobs(st, company) ==
    LET folded == str_lower(company)
    IN {job_of_row(r) :
          r \in {x \in st : company = "" \/ str_lower(x.company) = folded}}

\* The names the dashboard purges by: the display name, the adapter's
\* company_name and the registry key of a source, and a name with no rows.
PurgeNames == {"acme", "ACME", "globex", "initech"}

\* ------------------------------------------ resume matching (matching.py)
PM_SKILL_KEYWORDS ==
    {"product management", "product strategy", "product roadmap", "roadmap",
     "product vision", "product lifecycle", "product development",
     "product discovery", "product analytics", "product ops",
     "stakeholder management", "cross-functional", "leadership",
     "team management", "executive communication",
     "influence without authority", "agile", "scrum", "kanban", "lean",
     "waterfall", "safe", "design thinking", "jobs to be done", "jtbd",
     "data analysis", "data-driven", "sql", "a/b testing", "ab testing",
     "experimentation", "hypothesis", "metrics", "kpis", "okrs",
     "quantitative", "qualitative", "user research", "market research",
     "competitive analysis", "business analysis", "api", "apis", "saas",
     "b2b", "b2c", "platform", "infrastructure", "machine learning", "ml",
     "ai", "artificial intelligence", "cloud", "aws", "gcp", "azure",
     "microservices", "system design", "technical requirements", "prd",
     "product requirements", "specifications", "spec",
     "technical specification", "user experience", "ux", "ui",
     "user interface", "wireframes", "prototyping", "usability",
     "accessibility", "figma", "user stories", "user flows",
     "journey mapping", "go-to-market", "gtm", "pricing", "monetization",
     "revenue", "growth", "acquisition", "retention", "engagement",
     "conversion", "funnel", "p&l", "business case", "roi", "market sizing",
     "tam", "presentations", "documentation", "storytelling",
     "requirements gathering", "sprint planning", "backlog",
     "prioritization", "trade-offs", "decision making", "jira", "confluence",
     "asana", "notion", "linear", "amplitude", "mixpanel", "tableau",
     "looker", "google analytics", "salesforce", "hubspot", "fintech",
     "payments", "e-commerce", "ecommerce", "healthcare", "enterprise",
     "marketplace", "security", "compliance"}

STOP_WORDS ==
    {"a", "an", "the", "and", "or", "but", "in", "on", "at", "to", "for",
     "of", "with", "by", "from", "is", "it", "as", "be", "was", "were",
     "are", "been", "has", "had", "have", "do", "did", "does", "will",
     "would", "could", "should", "may", "might", "can", "this", "that",
     "these", "those", "i", "me", "my", "we", "our", "you", "your", "he",
     "she", "his", "her", "they", "their", "them", "its", "not", "no", "so",
     "if", "then", "than", "also", "just", "about", "up", "out", "all",
     "more", "some", "such", "into", "over", "after", "before", "between",
     "through", "during", "each", "very", "most", "other", "own", "same",
     "both", "only", "new", "work", "working", "ability", "able",
     "experience", "including", "well", "strong", "team", "role", "company",
     "job", "position", "candidate", "responsibilities", "requirements",
     "qualifications", "years", "etc", "e.g", "i.e"}

\* needle in haystack, on str.
str_contains(needle, haystack) ==
    \E i \in 1..(Len(haystack) - Len(needle) + 1) :
        SubSeq(haystack, i, i + Len(needle) - 1) = needle

\* re.findall(r"[a-z][a-z\-]+", text): scanning left to right, a match starts
\* at the first letter of a maximal run of letters and hyphens and runs
\* greedily to the end of the run; a run whose first letter is its last
\* character gives no match.
findall_words(text) ==
    LET n == Len(text)
        chars == [i \in 1..n |-> SubSeq(text, i, i)]
        letters == {i \in 1..n : chars[i] \in DOMAIN UpperOf}
        dashes == {i \in 1..n : chars[i] = "-"}
        run == letters \cup dashes
        starts == {p \in letters :
                     /\ p + 1 \in run
                     /\ \E a \in 0..(p - 1) :
                            a \notin run /\ (a + 1)..(p - 1) \subseteq dashes}
        last(p) == CHOOSE b \in (p + 1)..n :
                       p..b \subseteq run /\ b + 1 \notin run
    IN {SubSeq(text, p, last(p)) : p \in starts}

\* extract_keywords: the skill phrases occurring in the lower-cased text as
\* substrings, and its words longer than two characters that are not stop
\* words.
extract_keywords(text) ==
    LET text_lower == str_lower(text)
        found == {skill \in PM_SKILL_KEYWORDS : str_contains(skill, text_lower)}
        words == findall_words(text_lower)
    IN found \cup {word \in words : word \notin STOP_WORDS /\ Len(word) > 2}

\* ord() of the characters keywords are made of, as the position in this
\* string.
CodePoints == " &-./0123456789abcdefghijklmnopqrstuvwxyz"
ord(c) == CHOOSE i \in 1..Len(CodePoints) : SubSeq(CodePoints, i, i) = c

\* a < b on str: by code point at the first difference, a proper prefix
\* first.
str_less(a, b) ==
    \E k \in 0..(IF Len(a) < Len(b) THEN Len(a) ELSE Len(b)) :
        /\ SubSeq(a, 1, k) = SubSeq(b, 1, k)
        /\ \/ k = Len(a) /\ k < Len(b)
           \/ /\ k < Len(a)
              /\ k < Len(b)
              /\ ord(SubSeq(a, k + 1, k + 1)) < ord(SubSeq(b, k + 1, k + 1))

\* sorted(S) for a set of str.
RECURSIVE sorted(_)
sorted(S) ==
    IF S = {} THEN <<>>
    ELSE LET least == CHOOSE x \in S : \A y \in S \ {x} : str_less(x, y)
         IN <<least>> \o sorted(S \ {least})

\* Variant: int(), truncating the quotient.
py_trunc(num, den) == num \div den

\* round(num / den) for naturals num and den > 0: the nearest integer, a tie
\* going to the even neighbour. score_job computes round(m / j * 100) in
\* double precision, which is this function of (100 * m, j) for every
\* 0 <= m <= j < 40.
py_round(num, den) ==
    LET q == num \div den
        r == num % den
    IN IF 2 * r < den THEN q
       ELSE IF 2 * r > den THEN q + 1
       ELSE IF q % 2 = 0 THEN q ELSE q + 1

\* MatchResult.
MatchResult(score, level, matched_keywords) ==
    [score |-> score, level |-> level, matched_keywords |-> matched_keywords]

\* Variant: the matched share of the resume's keywords.
score_job_of_resume(resume_text, job_description) ==
    LET resume_keywords == extract_keywords(resume_text)
        jd_keywords == extract_keywords(job_description)
        matched == resume_keywords \cap jd_keywords
    IN IF job_description = "" \/ resume_keywords = {} \/ jd_keywords = {}
       THEN MatchResult(0, "N/A", <<>>)
       ELSE LET rounded == py_round(100 * Cardinality(matched),
                                    Cardinality(resume_keywords))
                score == IF rounded < 100 THEN rounded ELSE 100
            IN MatchResult(score,
                           IF score >= 70 THEN "Strong"
                           ELSE IF score >= 40 THEN "Good" ELSE "Low",
                           sorted(matched))

\* score_job(resume_text, job_description).
score_job(resume_text, job_description) ==
    IF job_description = "" THEN MatchResult(0, "N/A", <<>>)
    ELSE LET resume_keywords == extract_keywords(resume_text)
             jd_keywords == extract_keywords(job_description)
         IN IF resume_keywords = {} \/ jd_keywords = {}
            THEN MatchResult(0, "N/A", <<>>)
            ELSE LET matched == resume_keywords \cap jd_keywords
                     rounded == py_round(100 * Cardinality(matched),
                                         Cardinality(jd_keywords))
                     score == IF rounded < 100 THEN rounded ELSE 100
                     level == IF score >= 70 THEN "Strong"
                              ELSE IF score >= 40 THEN "Good" ELSE "Low"
                 IN MatchResult(score, level, sorted(matched))

\* Resume texts score_job is called with: empty, without any keyword, and
\* with skills and plain words in mixed case.
ResumeTexts ==
    {"", "I am a PM",
     "Experienced in product management and sql.",
     "Agile roadmap owner, kanban board",
     "SQL, Agile; Product Management: engineer skilled"}

\* Descriptions of the postings scored (job.description or "").
DescriptionTexts ==
    {"", "To be or not",
     "We need an engineer skilled in product management, agile, and sql.",
     "Maintain roadmaps",
     "kanban board",
     "sql scrum kanban"}

\* What a user adds at the end of the resume, and what stands between the
\* old text and the addition in the text extracted from the upload (the
\* texts of the pages are concatenated with nothing in between).
AddedKeywords == {"sql", "scrum", "agile coach"}
Separators == {"", " ", ", "}

\* ------------------------------ location normalisation (location_utils.py)
\* The alias tables, in the order the dicts are iterated.
CITY_ALIASES ==
    <<(<<"sf", "San Francisco">>), (<<"san fran", "San Francisco">>),
      (<<"nyc", "New York">>), (<<"la", "Los Angeles">>),
      (<<"dc", "Washington DC">>),
      (<<"washington, d.c.", "Washington DC">>),
      (<<"washington d.c.", "Washington DC">>),
      (<<"london, uk", "London, UK">>),
      (<<"london, united kingdom", "London, UK">>),
      (<<"bangalore", "Bengaluru">>), (<<"bombay", "Mumbai">>)>>

COUNTRY_ALIASES ==
    <<(<<"usa", "US">>), (<<"united states", "US">>),
      (<<"united states of america", "US">>), (<<"united kingdom", "UK">>),
      (<<"great britain", "UK">>), (<<"deutschland", "Germany">>),
      (<<"brasil", "Brazil">>)>>

STATE_ABBREV ==
    [region \in {"california", "new york", "texas", "washington", "colorado",
                 "oregon", "massachusetts", "illinois", "georgia", "florida",
                 "pennsylvania", "british columbia", "ontario"} |->
        CASE region = "california" -> "CA"
          [] region = "new york" -> "NY"
          [] region = "texas" -> "TX"
          [] region = "washington" -> "WA"
          [] region = "colorado" -> "CO"
          [] region = "oregon" -> "OR"
          [] region = "massachusetts" -> "MA"
          [] region = "illinois" -> "IL"
          [] region = "georgia" -> "GA"
          [] region = "florida" -> "FL"
          [] region = "pennsylvania" -> "PA"
          [] region = "british columbia" -> "BC"
          [] region = "ontario" -> "ON"]

\* The character of text at position i, "" outside the text.
char_at(text, i) == IF i >= 1 /\ i <= Len(text) THEN SubSeq(text, i, i) ELSE ""

\* \w of the re module on the characters locations are written with.
is_word(c) ==
    \/ c \in DOMAIN UpperOf
    \/ c \in DOMAIN LowerOf
    \/ c \in {"0", "1", "2", "3", "4", "5", "6", "7", "8", "9", "_"}

\* \s / str.strip / str.split: the texts of the model hold no whitespace
\* other than the space.
ws_run(text, i) ==
    CHOOSE k \in 0..(Len(text) + 1 - i) :
        /\ \A j \in i..(i + k - 1) : char_at(text, j) = " "
        /\ char_at(text, i + k) # " "

\* The number of spaces text ends with.
ws_run_back(text) ==
    CHOOSE k \in 0..Len(text) :
        /\ \A j \in (Len(text) - k + 1)..Len(text) : char_at(text, j) = " "
        /\ char_at(text, Len(text) - k) # " "

\* str.strip().
str_strip(text) ==
    LET inked == {i \in 1..Len(text) : char_at(text, i) # " "}
    IN IF inked = {} THEN ""
       ELSE SubSeq(text, CHOOSE i \in inked : \A j \in inked : i <= j,
                   CHOOSE i \in inked : \A j \in inked : i >= j)

\* " ".join(text.split()).
RECURSIVE join_split(_, _, _)
join_split(text, lo, hi) ==
    IF lo > hi THEN ""
    ELSE IF lo = hi
    THEN (IF char_at(text, lo) # " " THEN char_at(text, lo)
          ELSE IF \/ \A j \in 1..lo : char_at(text, j) = " "
                  \/ \A j \in lo..Len(text) : char_at(text, j) = " "
                  \/ char_at(text, lo - 1) = " "
               THEN "" ELSE " ")
    ELSE LET mid == (lo + hi) \div 2
         IN join_split(text, lo, mid) \o join_split(text, mid + 1, hi)

\* The literal lit stands in text at position i; with ignore_case, lit is
\* given in lower case (re.IGNORECASE).
lit_at(text, i, lit, ignore_case) ==
    /\ i >= 1
    /\ i + Len(lit) - 1 <= Len(text)
    /\ LET part == SubSeq(text, i, i + Len(lit) - 1)
       IN (IF ignore_case THEN str_lower(part) ELSE part) = lit

\* \b between the characters at i and i + 1.
word_boundary(text, i) ==
    is_word(char_at(text, i)) # is_word(char_at(text, i + 1))

\* The length of the match of a pattern at position i of text, -1 when it
\* does not match there. The patterns are
\*   paren         \s*\(word\)\s*, ignoring case
\*   alias         \b + re.escape(alias) + \b, ignoring case
\*   remote_state  Remote-([A-Z]{2})\s*\(National\)
match_len(pat, text, i) ==
    CASE pat.kind = "paren" ->
            IF lit_at(text, i + ws_run(text, i), pat.word, TRUE)
            THEN ws_run(text, i) + Len(pat.word)
                 + ws_run(text, i + ws_run(text, i) + Len(pat.word))
            ELSE -1
      [] pat.kind = "alias" ->
            IF /\ lit_at(text, i, pat.word, TRUE)
               /\ word_boundary(text, i - 1)
               /\ word_boundary(text, i + Len(pat.word) - 1)
            THEN Len(pat.word) ELSE -1
      [] pat.kind = "remote_state" ->
            IF /\ lit_at(text, i, "Remote-", FALSE)
               /\ char_at(text, i + 7) \in DOMAIN LowerOf
               /\ char_at(text, i + 8) \in DOMAIN LowerOf
               /\ lit_at(text, i + 9 + ws_run(text, i + 9), "(National)",
                         FALSE)
            THEN 9 + ws_run(text, i + 9) + 10 ELSE -1

\* The first position from pos on where the pattern matches, 0 when there
\* is none.
leftmost_match(pat, text, pos) ==
    IF \A i \in pos..Len(text) : match_len(pat, text, i) < 0 THEN 0
    ELSE CHOOSE i \in pos..Len(text) :
             /\ match_len(pat, text, i) >= 0
             /\ \A j \in pos..(i - 1) : match_len(pat, text, j) < 0

\* What re.sub puts for the match at position i: the replacement text, or
\* group 1 for \1.
replacement(pat, text, i) ==
    IF pat.kind = "remote_state" THEN SubSeq(text, i + 7, i + 8) ELSE pat.repl

\* re.sub(pattern, repl, text) from position pos on: the leftmost matches,
\* not overlapping, are replaced; replaced text is not scanned again.
RECURSIVE re_sub(_, _, _)
re_sub(pat, text, pos) ==
    IF text = "" THEN ""
    ELSE IF leftmost_match(pat, text, pos) = 0
    THEN SubSeq(text, pos, Len(text))
    ELSE SubSeq(text, pos, leftmost_match(pat, text, pos) - 1)
         \o replacement(pat, text, leftmost_match(pat, text, pos))
         \o re_sub(pat, text,
                   leftmost_match(pat, text, pos)
                   + match_len(pat, text, leftmost_match(pat, text, pos)))

\* ast.literal_eval on the dict-like strings of the model; any other string
\* in braces raises ValueError or SyntaxError.
DictLiterals ==
    [s \in {"{'city': 'Austin', 'region': 'Texas'}",
            "{'region': 'British Columbia', 'country': 'Canada'}"} |->
        IF s = "{'city': 'Austin', 'region': 'Texas'}"
        THEN [city |-> "Austin", region |-> "Texas", country |-> ""]
        ELSE [city |-> "", region |-> "British Columbia",
              country |-> "Canada"]]

\* _parse_dict_location.
parse_dict_location(location) ==
    IF location \notin DOMAIN DictLiterals THEN location
    ELSE LET loc_dict == DictLiterals[location]
             city == IF loc_dict.city # "" THEN <<loc_dict.city>> ELSE <<>>
             region_lower == str_lower(loc_dict.region)
             region == IF loc_dict.region # ""
                          /\ loc_dict.region # loc_dict.city
                       THEN <<IF region_lower \in DOMAIN STATE_ABBREV
                              THEN STATE_ABBREV[region_lower]
                              ELSE loc_dict.region>>
                       ELSE <<>>
             country == IF /\ loc_dict.country # ""
                           /\ loc_dict.country \notin {"United States", "USA"}
                           /\ Len(city \o region) < 2
                        THEN <<loc_dict.country>> ELSE <<>>
             parts == city \o region \o country
         IN IF parts = <<>> THEN "Unknown"
            ELSE IF Len(parts) = 1 THEN parts[1]
            ELSE parts[1] \o ", " \o parts[2]

\* _is_remote.
is_remote(location) ==
    \E ind \in {"remote", "work from home", "wfh", "distributed"} :
        str_contains(ind, str_lower(location))

\* _clean_location: re.sub(r'\s+locations?\s*$', '', l, flags=re.IGNORECASE),
\* for l without its trailing whitespace and the length of the word found
\* at its end.
cut_locations(l, body, word) ==
    IF word > 0 /\ ws_run_back(SubSeq(body, 1, Len(body) - word)) > 0
    THEN SubSeq(body, 1, Len(body) - word
                - ws_run_back(SubSeq(body, 1, Len(body) - word)))
    ELSE l

locations_suffix(l) ==
    cut_locations(l, SubSeq(l, 1, Len(l) - ws_run_back(l)),
        IF lit_at(l, Len(l) - ws_run_back(l) - 8, "locations", TRUE) THEN 9
        ELSE IF lit_at(l, Len(l) - ws_run_back(l) - 7, "location", TRUE)
        THEN 8 ELSE 0)

\* _clean_location: group 1 of re.match(r'^[A-Z]{2}-Remote-(.+)$', l).
remote_pattern(l) ==
    IF /\ char_at(l, 1) \in DOMAIN LowerOf
       /\ char_at(l, 2) \in DOMAIN LowerOf
       /\ lit_at(l, 3, "-Remote-", FALSE)
       /\ Len(l) > 10
    THEN SubSeq(l, 11, Len(l)) ELSE l

\* _clean_location: re.sub(r'^[A-Z]{2}-', '', l).
country_prefix(l) ==
    IF /\ char_at(l, 1) \in DOMAIN LowerOf
       /\ char_at(l, 2) \in DOMAIN LowerOf
       /\ char_at(l, 3) = "-"
    THEN SubSeq(l, 4, Len(l)) ELSE l

\* _clean_location: l.split(",")[0].strip() when ", US-" or ", IE-" is in l.
first_place(l) ==
    IF str_contains(", US-", l) \/ str_contains(", IE-", l)
    THEN str_strip(SubSeq(l, 1,
             (CHOOSE i \in 1..Len(l) :
                  /\ char_at(l, i) = ","
                  /\ \A j \in 1..(i - 1) : char_at(l, j) # ",") - 1))
    ELSE l

\* _clean_location: " ".join(l.split()), and the final strip().
squeeze(l) == str_strip(join_split(l, 1, Len(l)))

\* _clean_location, statement by statement from the innermost call outwards.
clean_location(location) ==
    squeeze(
      re_sub([kind |-> "paren", word |-> "(hq)", repl |-> " "],
        first_place(
          re_sub([kind |-> "paren", word |-> "(national)", repl |-> " "],
            re_sub([kind |-> "remote_state"],
              country_prefix(
                remote_pattern(
                  locations_suffix(
                    re_sub([kind |-> "paren", word |-> "(remote)",
                            repl |-> " "], location, 1)))),
              1),
            1)),
        1))

\* One pass of "for alias, standard in table.items(): location = re.sub(...)"
\* over the entries from k on.
RECURSIVE apply_aliases(_, _, _)
apply_aliases(table, k, location) ==
    IF location = "" \/ k > Len(table) THEN location
    ELSE apply_aliases(table, k + 1,
             re_sub([kind |-> "alias", word |-> table[k][1],
                     repl |-> table[k][2]], location, 1))

\* _normalize_city.
normalize_city(location) == apply_aliases(CITY_ALIASES, 1, location)

\* _normalize_region: the country names; STATE_ABBREV is not consulted.
normalize_region(location) == apply_aliases(COUNTRY_ALIASES, 1, location)

\* normalize_location: "Check if it's a dict-like string and parse it".
parsed_location(location) ==
    IF /\ char_at(location, 1) = "{"
       /\ char_at(location, Len(location)) = "}"
    THEN parse_dict_location(location) ELSE location

\* Variant: the remote indicator is not attached again.
with_remote_dropped(remote, location) ==
    IF location # "" THEN location ELSE "Unknown"

\* normalize_location: "Add remote indicator back if needed", and Unknown
\* for an empty result.
with_remote(remote, location) ==
    IF remote /\ ~str_contains("remote", str_lower(location))
    THEN (IF location # "" /\ location # "Unknown"
          THEN location \o " (Remote)" ELSE "Remote")
    ELSE IF location # "" THEN location ELSE "Unknown"

\* normalize_location from the dict-like check on.
normalized(location) ==
    with_remote(is_remote(location),
        normalize_region(normalize_city(clean_location(location))))

\* normalize_location(raw_location).
normalize_location(raw_location) ==
    IF raw_location = "" \/ raw_location = "Unknown" THEN "Unknown"
    ELSE normalized(parsed_location(str_strip(raw_location)))

\* Raw locations as the sources write them: aliases, country-code prefixes,
\* remote indicators, markers, several places in one string, dict-like
\* strings, and plain names.
RawLocations ==
    {"", "  ", "Unknown", "Tokyo", "Paris  France",
     "dc", "usa", "sf", "SF", "nyc", "la", "San Fran", "Bangalore", "Bombay",
     "Washington DC", "Washington, D.C.", "London, United Kingdom",
     "United States", "United States of America", "Great Britain",
     "Berlin, Deutschland", "Sao Paulo, Brasil", "Los Angeles, USA",
     "US-CA-San Jose", "US-NY-New York", "IE-Dublin", "US-", "US-Remote",
     "CA-Remote-British Columbia", "LA-Remote-Texas",
     "Remote", "remote", "(Remote)", "Remote - US", "Remote, USA",
     "NYC (Remote)", "San Francisco, CA (Remote)", "Remote-CA (National)",
     "Remote (National)", "Work from home", "WFH", "Distributed",
     "New York (HQ)", "Seattle, WA Locations", "Dublin, IE-Dublin",
     "Austin, US-TX", "Toronto, Ontario", "{HQ}", "(HQ)",
     "Unknown (Remote)",
     "{'city': 'Austin', 'region': 'Texas'}",
     "{'region': 'British Columbia', 'country': 'Canada'}"}

\* ------------------------------------------- adapter registry (scrapers)
\* The keys of SCRAPERS.
SCRAPERS == {"google", "stripe", "paypal", "uber", "ramp", "openai",
             "anthropic", "datadog", "salesforce", "amazon"}

\* company_name.lower() for the names a configuration file may hold.
lower_name(name) ==
    CASE name = "Stripe" -> "stripe"
      [] name = "RAMP" -> "ramp"
      [] name = "Nokia" -> "nokia"
      [] OTHER -> name

\* The configurations of the single-process specification: company names in
\* any letter case, one of them without adapter, with and without filters
\* and webhooks.
Configs ==
    {[companies |-> <<"Nokia", "Stripe", "RAMP">>, keywords |-> <<>>,
      locations |-> <<>>, webhooks |-> TRUE],
     [companies |-> <<"uber", "Nokia", "Stripe">>,
      keywords |-> <<(<<"p", "m">>)>>, locations |-> <<>>, webhooks |-> FALSE],
     [companies |-> <<"Stripe">>, keywords |-> <<>>,
      locations |-> <<(<<"N", "y">>), (<<"s", "f">>)>>, webhooks |-> FALSE],
     [companies |-> <<"Stripe", "uber">>,
      keywords |-> <<(<<"s", "w">>), (<<"M">>)>>,
      locations |-> <<(<<"n", "Y">>)>>, webhooks |-> TRUE]}

\* What fetch_jobs of the adapter registered under a key may return, each
\* posting as <<company_name, id, version>>.
AdapterListings(key) ==
    CASE key = "stripe" ->
            {<<>>, <<(<<"Stripe", "123", 1>>), (<<"Stripe", "456", 2>>)>>,
             <<(<<"Stripe", "123", 2>>)>>,
             <<(<<"Stripe", "789", 1>>), (<<"Stripe", "789", 2>>)>>}
      [] key = "ramp" -> {<<(<<"Ramp", "123", 1>>)>>}
      [] key = "uber" -> {<<>>, <<(<<"Uber", "123", 2>>)>>}
      [] OTHER -> {<<>>}

\* What one call of scraper.fetch_jobs() does, seen from fetch_all_jobs: it
\* returns a list or it raises.
AdapterOutcomes(key, now) ==
    {[raised |-> TRUE, jobs |-> <<>>]} \cup
    {[raised |-> FALSE,
      jobs |-> [i \in DOMAIN l |-> Job(l[i][1], l[i][2], l[i][3], now)]] :
        l \in AdapterListings(key)}

\* Variant: no try/except around scraper.fetch_jobs(), the exception leaves
\* fetch_all_jobs.
fetch_one_unguarded(i, all_jobs, calls, name, outcome) ==
    IF lower_name(name) \notin SCRAPERS
    THEN [i |-> i + 1, all_jobs |-> all_jobs, calls |-> calls, raised |-> FALSE]
    ELSE [i |-> i,
          all_jobs |-> all_jobs \o outcome.jobs,
          calls |-> Append(calls, [key |-> lower_name(name), outcome |-> outcome]),
          raised |-> outcome.raised]

\* One iteration of the loop of fetch_all_jobs over config.companies:
\* an unknown name is skipped, the adapter is invoked once, its postings are
\* appended, an exception is logged and swallowed.
fetch_one(i, all_jobs, calls, name, outcome) ==
    IF lower_name(name) \notin SCRAPERS
    THEN [i |-> i + 1, all_jobs |-> all_jobs, calls |-> calls, raised |-> FALSE]
    ELSE [i |-> i + 1,
          all_jobs |-> IF outcome.raised THEN all_jobs
                       ELSE all_jobs \o outcome.jobs,
          calls |-> Append(calls, [key |-> lower_name(name), outcome |-> outcome]),
          raised |-> FALSE]

\* ------------------------------------------------- adapters (scrapers/*.py)
Adapters == {"Google", "Stripe", "Anthropic", "Ramp", "Amazon", "Salesforce",
             "PayPal", "Uber", "Meta"}
SingleShot == {"Google", "Stripe", "Anthropic", "Ramp"}
OffsetPaged == {"Amazon", "Salesforce", "PayPal"}
Paginating == OffsetPaged \cup {"Uber", "Meta"}
WithFallback == {"Uber", "Meta"}

\* limit, the page size an offset-paginating adapter asks for.
AmazonLimit == 100
SalesforceLimit == 20
PayPalLimit == 50
limit(name) ==
    CASE name = "Amazon" -> AmazonLimit
      [] name = "Salesforce" -> SalesforceLimit
      [] name = "PayPal" -> PayPalLimit

\* The safety limits: len(jobs) > 5000 (Amazon, Salesforce, Meta),
\* offset > 5000 (PayPal), page > 50 (Uber).
JobsCap == 5000
PayPalOffsetCap == 5000
UberPageCap == 50

\* What a source answers to one request.
\*   conn_error    requests raises ConnectionError / Timeout
\*   http_error    a non-success status, raise_for_status() raises HTTPError
\*   invalid_body  the body is not JSON (not XML for Google)
\*   not_object    a JSON body that is a list, null, ... and not an object
\*   object        a body of the expected shape with n well-formed records
\*                 and, when bad is not "none", one malformed record
PageSizes == {0, 1, 2}
Totals == {0, 30, 1000000}
Cursors == {"c1", "c2"}
Failure(kind) ==
    [kind |-> kind, n |-> 0, bad |-> "none", total |-> 0, has_next |-> FALSE,
     end_cursor |-> ""]
Page(n, total, has_next, end_cursor) ==
    [kind |-> "object", n |-> n, bad |-> "none", total |-> total,
     has_next |-> has_next, end_cursor |-> end_cursor]
Failures == {Failure(k) : k \in {"conn_error", "http_error", "invalid_body",
                                 "not_object"}}

\* The answers of the primary endpoint of an adapter; the fields the adapter
\* never reads are held fixed.
Responses(name) ==
    CASE name = "Google" ->
            {Failure(k) : k \in {"conn_error", "http_error", "invalid_body"}}
            \cup {Page(n, 0, FALSE, "") : n \in PageSizes}
      [] name \in OffsetPaged ->
            Failures \cup {Page(n, t, FALSE, "") : n \in PageSizes, t \in Totals}
      [] name = "Meta" ->
            Failures \cup {Page(n, 0, h, c) : n \in PageSizes, h \in BOOLEAN,
                                              c \in Cursors}
      [] OTHER -> Failures \cup {Page(n, 0, FALSE, "") : n \in PageSizes}

\* The answers of the secondary endpoint (Greenhouse board of Uber, public
\* jobs page of Meta).
FallbackResponses(name) ==
    IF name = "Uber"
    THEN Failures \cup {Page(n, 0, FALSE, "") : n \in PageSizes}
    ELSE {Failure("conn_error"), Failure("http_error"), Page(0, 0, FALSE, "")}

\* The malformed records a page may hold.
\*   no_id              an object without the field(s) the id is taken from
\*   number_for_string  a number where _parse_job calls a str method:
\*                      updated_at (Stripe, Anthropic), publishedAt (Ramp),
\*                      posted_date (Amazon), externalPath (Salesforce,
\*                      PayPal); title where it calls none (Uber, Meta)
\*   number_for_list    a number where a list is expected: offices,
\*                      category, bulletFields, categoryHierarchy,
\*                      location(s)
\*   empty_list         that list empty (bulletFields without externalPath)
\*   not_object         the record is a string, a number or null
MalformedKinds == {"no_id", "number_for_string", "number_for_list",
                   "empty_list", "not_object"}

\* The records whose only defect is the posted-date field (updated_at,
\* publishedAt, posted_date, postedOn, create_time).
\*   date_unknown_format  a string in none of the formats the adapter tries,
\*                        for Meta a timestamp past the year 9999
\*   date_wrong_type      a list where a string is expected, a string where
\*                        Meta expects a number
\*   date_out_of_range    a string in a known format naming no date (a 13th
\*                        month), for Meta a timestamp beyond time_t
DateDefects == {"date_unknown_format", "date_wrong_type", "date_out_of_range"}

\* _parse_job on a malformed record: "job" when a Job is built all the same
\* (with posted_date None when the defect is in the date field), "skip" when
\* the except clause (KeyError, TypeError; also IndexError in PayPal)
\* returns None or the id test of Meta does, otherwise the exception that
\* leaves _parse_job. The date is parsed under `except ValueError`
\* (ValueError, AttributeError in PayPal; ValueError, TypeError in Meta,
\* where datetime.fromtimestamp raises OverflowError or OSError beyond
\* time_t); Uber reads no date.
parse_job(name, bad) ==
    CASE bad = "not_object" -> "AttributeError"
      [] bad = "no_id" ->
            IF name \in {"Stripe", "Anthropic", "Ramp", "Meta"} THEN "skip"
            ELSE "job"
      [] bad = "number_for_string" ->
            IF name \in {"Uber", "Meta"} THEN "job"
            ELSE IF name = "Amazon" THEN "skip"
            ELSE "AttributeError"
      [] bad = "number_for_list" ->
            IF name \in {"Amazon", "Uber", "Meta"} THEN "job" ELSE "skip"
      [] bad = "empty_list" ->
            IF name = "Salesforce" THEN "IndexError" ELSE "job"
      [] bad = "date_unknown_format" -> "job"
      [] bad = "date_wrong_type" ->
            IF name \in {"Stripe", "Anthropic", "Ramp"} THEN "AttributeError"
            ELSE IF name \in {"Amazon", "Salesforce"} THEN "skip"
            ELSE "job"
      [] bad = "date_out_of_range" ->
            IF name = "Meta" THEN "OverflowError" ELSE "job"

\* len(job_list): the records of a page.
page_len(resp) == resp.n + (IF resp.bad = "none" THEN 0 ELSE 1)
\* The number of Jobs the loop over the records of a page appends.
parsed_count(name, resp) ==
    resp.n + (IF resp.bad # "none" /\ parse_job(name, resp.bad) = "job"
              THEN 1 ELSE 0)

\* "limit": 100 in the payload of Uber, first: 100 in the query of Meta.
UberLimit == 100
MetaFirst == 100
\* The number of records of a full page.
FullPage(name) ==
    CASE name \in OffsetPaged -> limit(name)
      [] name = "Uber" -> UberLimit
      [] name = "Meta" -> MetaFirst

\* The sources one fetch_jobs call is run against.
\*   any      each answer is any element of Responses
\*   runaway  never signals completion: every page is full, the reported
\*            total exceeds every offset asked, has_next_page is always true
\*            and the cursor handed out is always the same
\*   records  pages of at most one well-formed and at most one malformed
\*            record, with more pages to come
\*   dates    as records, the defect of the malformed record being in its
\*            posted-date field
\*   paged    well-behaved: a constant total of well-formed records, served
\*            by offset in pages of limit records
\*   barren   never signals completion, and no record of any page can be
\*            parsed
AnySource == [mode |-> "any", total |-> 0]
PagedTotals == {0, 1, 20, 50, 100, 130, 1000, 5000}
PagedSources == {[mode |-> "paged", total |-> t] : t \in PagedTotals}
RecordsSource == [mode |-> "records", total |-> 1000000]
DatesSource == [mode |-> "dates", total |-> 1000000]
RunawayTotals == {0, 1000000}
RunawaySources == {[mode |-> "runaway", total |-> t] : t \in RunawayTotals}
\* The defects for which _parse_job of an adapter returns None.
SkippedKinds(name) ==
    {b \in MalformedKinds \cup DateDefects : parse_job(name, b) = "skip"}
\* Sources that never signal completion and serve nothing parseable: every
\* record of every page has the defect bad; for Meta also pages with an
\* empty edge list (bad "none"), has_next_page true and one end_cursor.
BarrenSources(name) ==
    {[mode |-> "barren", total |-> 1000000, bad |-> b] :
        b \in SkippedKinds(name) \cup (IF name = "Meta" THEN {"none"} ELSE {})}

\* The answers the source src may give to the request fetch_jobs sends at
\* offset / page / cursor pos.
Answers(name, src, pos) ==
    CASE src.mode = "runaway" ->
            IF name \in OffsetPaged
            THEN {Page(FullPage(name),
                       IF src.total > pos + limit(name) THEN src.total
                       ELSE pos + limit(name) + 1,
                       FALSE, "")}
            ELSE {Page(FullPage(name), 0, TRUE, "c1")}
      [] src.mode = "barren" ->
            IF name \in OffsetPaged
            THEN {[Page(0, IF src.total > pos + limit(name) THEN src.total
                           ELSE pos + limit(name) + 1, FALSE, "")
                     EXCEPT !.bad = src.bad]}
            ELSE {[Page(0, 0, TRUE, "c1") EXCEPT !.bad = src.bad]}
      [] src.mode = "paged" ->
            {Page(IF pos >= src.total THEN 0
                  ELSE IF src.total - pos < limit(name) THEN src.total - pos
                  ELSE limit(name),
                  src.total, FALSE, "")}
      [] src.mode = "records" ->
            {[Page(n, src.total, TRUE, "c1") EXCEPT !.bad = b] :
                n \in {0, 1}, b \in MalformedKinds \cup {"none"}}
      [] src.mode = "dates" ->
            {[Page(n, src.total, TRUE, "c1") EXCEPT !.bad = b] :
                n \in {0, 1}, b \in DateDefects \cup {"none"}}
      [] OTHER -> Responses(name)

\* The number of requests after which a call is no longer followed.
RequestBound(src) ==
    IF src.mode \in {"any", "records", "dates"} THEN MaxRequests
    ELSE RequestLimit

\* What the request, the decoding of its body and the parsing of its
\* records raise.  response.json() raises requests.JSONDecodeError, a
\* RequestException, from requests 2.27 on (modern) and a plain ValueError
\* before.
raised_by(name, resp, modern) ==
    CASE resp.kind \in {"conn_error", "http_error"} -> "RequestException"
      [] resp.kind = "invalid_body" ->
            IF name = "Google" THEN "ParseError"
            ELSE IF modern THEN "RequestException" ELSE "ValueError"
      [] resp.kind = "not_object" -> "AttributeError"
      [] resp.bad # "none" /\ parse_job(name, resp.bad) \notin {"job", "skip"} ->
            parse_job(name, resp.bad)
      [] OTHER -> "none"

\* The except clauses of fetch_jobs: requests.RequestException, and
\* ET.ParseError in GoogleScraper.
caught(name, exc) ==
    \/ exc = "RequestException"
    \/ name = "Google" /\ exc = "ParseError"

\* The number of postings in the chunks lo..hi of jobs.
RECURSIVE JobsIn(_, _, _)
JobsIn(jobs, lo, hi) ==
    IF lo > hi THEN 0
    ELSE IF lo = hi THEN jobs[lo].n
    ELSE LET mid == (lo + hi) \div 2
         IN JobsIn(jobs, lo, mid) + JobsIn(jobs, mid + 1, hi)

\* len(jobs)
JobsLen(jobs) == JobsIn(jobs, 1, Len(jobs))

\* Variant: the position is not advanced, the same request is sent again.
next_pos_same(name, pos, resp) == pos

\* offset += limit, page += 1, cursor = page_info.get("end_cursor"); not
\* reached when the loop breaks before.
next_pos(name, pos, resp) ==
    CASE name \in OffsetPaged ->
            IF page_len(resp) = 0 THEN pos ELSE pos + limit(name)
      [] name = "Uber" -> IF page_len(resp) = 0 THEN pos ELSE pos + 1
      [] name = "Meta" -> IF resp.has_next THEN <<resp.end_cursor>> ELSE pos
      [] OTHER -> pos

\* Variant: the loop is left after the first page.
continues_never(name, resp, jobs, pos) == FALSE

\* Variant: the loops without their safety limits.
continues_uncapped(name, resp, jobs, pos) ==
    CASE name \in OffsetPaged -> page_len(resp) > 0 /\ ~(pos >= resp.total)
      [] name = "Uber" -> page_len(resp) > 0
      [] name = "Meta" -> resp.has_next
      [] OTHER -> FALSE

\* Whether the `while True` loop of fetch_jobs goes round again after a
\* response has been parsed: none of its break statements fired.
continues(name, resp, jobs, pos) ==
    CASE name \in {"Amazon", "Salesforce"} ->
            /\ page_len(resp) > 0
            /\ ~(pos >= resp.total)
            /\ ~(JobsLen(jobs) > JobsCap)
      [] name = "PayPal" ->
            /\ page_len(resp) > 0
            /\ ~(pos >= resp.total)
            /\ ~(pos > PayPalOffsetCap)
      [] name = "Uber" -> page_len(resp) > 0 /\ ~(pos > UberPageCap)
      [] name = "Meta" -> resp.has_next /\ ~(JobsLen(jobs) > JobsCap)
      [] OTHER -> FALSE

\* Variant: the fallback's postings are appended to what the primary parsed.
jobs_merged_with_fallback(primary_jobs, fallback_jobs) ==
    primary_jobs \o fallback_jobs

\* jobs = self._fetch_jobs_alternate() / self._fetch_jobs_fallback() in the
\* except clause of fetch_jobs.
jobs_after_fallback(primary_jobs, fallback_jobs) == fallback_jobs

\* ---------------------------------------------------------------- state
VARIABLES
    store,      \* rows of the jobs table (committed)
    clock,      \* datetime.now(), advanced by each fetch
    pc,         \* pc[p]: position of process p in its ingestion cycle
    batch,      \* batch[p]: the postings handed to find_new_jobs
    todo,       \* todo[p]: companies find_new_jobs has still to query
    new_jobs,   \* new_jobs[p]: result of find_new_jobs (so far)
    added,      \* added[p]: list returned by add_jobs
    o_pc,       \* position of run_job_check
    o_config,   \* the Config the cycle runs with
    o_i,        \* fetch_all_jobs: index of the next entry of config.companies
    o_all,      \* fetch_all_jobs: all_jobs
    o_calls,    \* fetch_jobs invocations of this cycle, with their outcome
    o_filtered, \* run_job_check: filtered_jobs
    o_new,      \* run_job_check: new_jobs
    o_notified, \* the lists handed to the notifiers in this cycle
    o_result,   \* <<value>> returned by run_job_check, <<>> before it returns
    a_name,     \* the adapter whose fetch_jobs runs
    a_pc,       \* position of fetch_jobs
    a_jobs,     \* fetch_jobs: jobs, as the chunks parsed from each response
    a_pos,      \* fetch_jobs: offset / page / cursor of the next request
    a_log,      \* requests sent so far, with the response and what it raised
    a_src,      \* the source fetch_jobs talks to
    d_ret,      \* the last delete_jobs_by_company call: argument and rowcount
    m_pc,       \* position of the dashboard's resume matching
    m_resume,   \* the resume text
    m_desc,     \* the description of the posting being scored
    m_result,   \* the MatchResult of the last score_job call, None before it
    m_prev,     \* the resume and MatchResult before the resume was extended
    l_pc,       \* position of the location normalisation
    l_raw,      \* the raw location handed to normalize_location
    l_out,      \* normalize_location(l_raw), None before the call
    l_again,    \* normalize_location(l_out), None before the call
    h_pc,       \* the interpreter running the PayPal adapter: "down" / "up"
    h_seed,     \* the secret the interpreter keys str hashes with
    h_log       \* per PayPal cycle: records fetched, postings built, new ones

cycleVars == <<pc, batch, todo, new_jobs, added>>
orchVars == <<o_pc, o_config, o_i, o_all, o_calls, o_filtered, o_new,
              o_notified, o_result>>
adVars == <<a_name, a_pc, a_jobs, a_pos, a_log, a_src>>
purgeVars == <<d_ret>>
matchVars == <<m_pc, m_resume, m_desc, m_result, m_prev>>
locVars == <<l_pc, l_raw, l_out, l_again>>
idVars == <<h_pc, h_seed, h_log>>
vars == <<store, clock, cycleVars, orchVars, adVars, purgeVars, matchVars,
          locVars, idVars>>

InitStore ==
    /\ store = {}
    /\ clock = 0
    /\ d_ret = None

\* No resume is being matched.
InitMatchIdle ==
    /\ m_pc = "idle"
    /\ m_resume = ""
    /\ m_desc = ""
    /\ m_result = None
    /\ m_prev = None

\* No location is being normalised.
InitLocIdle ==
    /\ l_pc = "idle"
    /\ l_raw = ""
    /\ l_out = None
    /\ l_again = None

InitCycles ==
    /\ pc = [p \in Procs |-> "idle"]
    /\ batch = [p \in Procs |-> <<>>]
    /\ todo = [p \in Procs |-> <<>>]
    /\ new_jobs = [p \in Procs |-> <<>>]
    /\ added = [p \in Procs |-> <<>>]

\* The orchestrator of the single-process specification, not started.
InitOrchIdle ==
    /\ o_pc = "idle"
    /\ o_config = [companies |-> <<>>, keywords |-> <<>>, locations |-> <<>>,
                   webhooks |-> FALSE]
    /\ o_i = 1
    /\ o_all = <<>>
    /\ o_calls = <<>>
    /\ o_filtered = <<>>
    /\ o_new = <<>>
    /\ o_notified = <<>>
    /\ o_result = <<>>

\* No adapter under examination: fetch_jobs of a single-shot adapter that
\* has already returned the empty list.
InitAdapterIdle ==
    /\ a_name = "Stripe"
    /\ a_pc = "returned"
    /\ a_jobs = <<>>
    /\ a_pos = <<>>
    /\ a_log = <<>>
    /\ a_src = AnySource

\* No interpreter runs the PayPal adapter.
InitIdIdle ==
    /\ h_pc = "down"
    /\ h_seed = ""
    /\ h_log = <<>>

InitTools == InitMatchIdle /\ InitLocIdle /\ InitIdIdle

Init ==
    InitStore /\ InitCycles /\ InitOrchIdle /\ InitAdapterIdle /\ InitTools

\* A cycle starts: the adapters were fetched and filtered; the postings are
\* constructed now.
Fetch(p) ==
    /\ pc[p] = "idle"
    /\ clock < MaxCycles
    /\ clock' = clock + 1
    /\ \E b \in Batches(clock + 1) : batch' = [batch EXCEPT ![p] = b]
    /\ pc' = [pc EXCEPT ![p] = "fetched"]
    /\ todo' = [todo EXCEPT ![p] = <<>>]
    /\ new_jobs' = [new_jobs EXCEPT ![p] = <<>>]
    /\ added' = [added EXCEPT ![p] = <<>>]
    /\ UNCHANGED <<store, orchVars, adVars, purgeVars, matchVars, locVars, idVars>>

\* find_new_jobs up to the first query: empty input returns [] at once,
\* otherwise the batch is grouped by company.
FindNewBegin(p) ==
    /\ pc[p] = "fetched"
    /\ IF batch[p] = <<>>
       THEN /\ pc' = [pc EXCEPT ![p] = "found"]
            /\ UNCHANGED todo
       ELSE /\ pc' = [pc EXCEPT ![p] = "finding"]
            /\ todo' = [todo EXCEPT ![p] = company_order(batch[p], 1, <<>>)]
    /\ UNCHANGED <<store, clock, batch, new_jobs, added, orchVars, adVars, purgeVars, matchVars, locVars, idVars>>

\* One iteration of the company loop of find_new_jobs: one SELECT, then the
\* membership tests.
FindNewCompany(p) ==
    /\ pc[p] = "finding"
    /\ new_jobs' = [new_jobs EXCEPT
                      ![p] = @ \o new_of_company(store, batch[p], Head(todo[p]))]
    /\ todo' = [todo EXCEPT ![p] = Tail(@)]
    /\ pc' = [pc EXCEPT ![p] = IF Tail(todo[p]) = <<>> THEN "found" ELSE "finding"]
    /\ UNCHANGED <<store, clock, batch, added, orchVars, adVars, purgeVars, matchVars, locVars, idVars>>

\* run_job_check, new_jobs non-empty: storage.add_jobs(new_jobs).
AddJobs(p) ==
    /\ pc[p] = "found"
    /\ new_jobs[p] # <<>>
    /\ LET r == add_jobs(store, new_jobs[p])
       IN /\ store' = r.store
          /\ added' = [added EXCEPT ![p] = r.new_jobs]
          /\ pc' = [pc EXCEPT ![p] = IF r.raised THEN "failed" ELSE "added"]
    /\ UNCHANGED <<clock, batch, todo, new_jobs, orchVars, adVars, purgeVars, matchVars, locVars, idVars>>

\* run_job_check, new_jobs empty: "No new jobs found".
NoNewJobs(p) ==
    /\ pc[p] = "found"
    /\ new_jobs[p] = <<>>
    /\ pc' = [pc EXCEPT ![p] = "idle"]
    /\ batch' = [batch EXCEPT ![p] = <<>>]
    /\ new_jobs' = [new_jobs EXCEPT ![p] = <<>>]
    /\ added' = [added EXCEPT ![p] = <<>>]
    /\ UNCHANGED <<store, clock, todo, orchVars, adVars, purgeVars, matchVars, locVars, idVars>>

\* run_job_check after add_jobs: the notifiers are handed new_jobs.
Notify(p) ==
    /\ pc[p] = "added"
    /\ pc' = [pc EXCEPT ![p] = "idle"]
    /\ batch' = [batch EXCEPT ![p] = <<>>]
    /\ new_jobs' = [new_jobs EXCEPT ![p] = <<>>]
    /\ added' = [added EXCEPT ![p] = <<>>]
    /\ UNCHANGED <<store, clock, todo, orchVars, adVars, purgeVars, matchVars, locVars, idVars>>

Next ==
    \E p \in Procs :
        \/ Fetch(p)
        \/ FindNewBegin(p)
        \/ FindNewCompany(p)
        \/ AddJobs(p)
        \/ NoNewJobs(p)
        \/ Notify(p)

Spec == Init /\ [][Next]_vars

\* ------------------------------------ ingestion cycles and the bulk purge
\* storage.delete_jobs_by_company(company), by the operator of a dashboard.
DeleteJobsByCompany ==
    /\ \E company \in PurgeNames :
         LET r == delete_jobs_by_company(store, company)
         IN /\ store' = r.store
            /\ d_ret' = [company |-> company, rowcount |-> r.rowcount]
    /\ UNCHANGED <<clock, cycleVars, orchVars, adVars, matchVars, locVars, idVars>>

\* The dashboard process: it purges, and it fetches, checks novelty and
\* persists like a cycle of run_job_check.
NextPurge ==
    \/ Fetch(1)
    \/ FindNewBegin(1)
    \/ FindNewCompany(1)
    \/ AddJobs(1)
    \/ NoNewJobs(1)
    \/ Notify(1)
    \/ DeleteJobsByCompany

SpecPurge == Init /\ [][NextPurge]_vars

\* --------------------------------------- one process running run_job_check
\* run_job_check is entered (cmd_run, or the scheduler of cmd_schedule).
OrchStart ==
    /\ o_pc = "idle"
    /\ clock < MaxCycles
    /\ clock' = clock + 1
    /\ \E c \in Configs : o_config' = c
    /\ o_pc' = "fetch"
    /\ o_i' = 1
    /\ o_all' = <<>>
    /\ o_calls' = <<>>
    /\ o_filtered' = <<>>
    /\ o_new' = <<>>
    /\ o_notified' = <<>>
    /\ o_result' = <<>>
    /\ UNCHANGED <<store, cycleVars, adVars, purgeVars, matchVars, locVars, idVars>>

\* fetch_all_jobs: one iteration of the loop over config.companies.
OrchFetchCompany ==
    /\ o_pc = "fetch"
    /\ o_i <= Len(o_config.companies)
    /\ LET name == o_config.companies[o_i]
       IN \E outcome \in AdapterOutcomes(lower_name(name), clock) :
            LET r == fetch_one(o_i, o_all, o_calls, name, outcome)
            IN /\ o_i' = r.i
               /\ o_all' = r.all_jobs
               /\ o_calls' = r.calls
               /\ o_pc' = IF r.raised THEN "aborted" ELSE "fetch"
    /\ UNCHANGED <<store, clock, cycleVars, adVars, purgeVars, matchVars, locVars, o_config, o_filtered, o_new,
                   o_notified, o_result, idVars>>

\* fetch_all_jobs returns all_jobs; run_job_check filters them.
OrchFilter ==
    /\ o_pc = "fetch"
    /\ o_i > Len(o_config.companies)
    /\ o_filtered' = filter_jobs(o_all, o_config)
    /\ o_pc' = "find"
    /\ UNCHANGED <<store, clock, cycleVars, adVars, purgeVars, matchVars, locVars, o_config, o_i, o_all, o_calls,
                   o_new, o_notified, o_result, idVars>>

\* Variant: no test of new_jobs, the branch that stores and notifies is
\* always taken.
after_find_always(new) == "add"

\* run_job_check, the test `if new_jobs:`: store and notify, or report that
\* nothing is new.
after_find(new) == IF new # <<>> THEN "add" ELSE "done"

\* new_jobs = storage.find_new_jobs(filtered_jobs) and the test `if new_jobs`.
OrchFindNew ==
    /\ o_pc = "find"
    /\ o_new' = find_new_jobs(store, o_filtered)
    /\ o_pc' = after_find(find_new_jobs(store, o_filtered))
    /\ UNCHANGED <<store, clock, cycleVars, adVars, purgeVars, matchVars, locVars, o_config, o_i, o_all, o_calls,
                   o_filtered, o_notified, o_result, idVars>>

\* storage.add_jobs(new_jobs)
OrchAddJobs ==
    /\ o_pc = "add"
    /\ store' = add_jobs(store, o_new).store
    /\ o_pc' = "terminal"
    /\ UNCHANGED <<clock, cycleVars, adVars, purgeVars, matchVars, locVars, o_config, o_i, o_all, o_calls, o_filtered,
                   o_new, o_notified, o_result, idVars>>

\* terminal.notify(new_jobs): the collaborator prints, or raises (nothing in
\* run_job_check catches).
OrchTerminalNotify ==
    /\ o_pc = "terminal"
    /\ o_notified' = Append(o_notified, [to |-> "terminal", jobs |-> o_new])
    /\ \E ok \in BOOLEAN :
         o_pc' = IF ~ok THEN "aborted"
                 ELSE IF o_config.webhooks THEN "webhook" ELSE "done"
    /\ UNCHANGED <<store, clock, cycleVars, adVars, purgeVars, matchVars, locVars, o_config, o_i, o_all, o_calls,
                   o_filtered, o_new, o_result, idVars>>

\* webhook.notify(new_jobs), when a webhook is configured: it returns (also
\* when the request failed, which _send_slack / _send_discord catch) or it
\* raises.
OrchWebhookNotify ==
    /\ o_pc = "webhook"
    /\ o_notified' = Append(o_notified, [to |-> "webhook", jobs |-> o_new])
    /\ \E ok \in BOOLEAN : o_pc' = IF ok THEN "done" ELSE "aborted"
    /\ UNCHANGED <<store, clock, cycleVars, adVars, purgeVars, matchVars, locVars, o_config, o_i, o_all, o_calls,
                   o_filtered, o_new, o_result, idVars>>

\* run_job_check returns (-> None).
OrchReturn ==
    /\ o_pc = "done"
    /\ o_result' = <<None>>
    /\ o_pc' = "idle"
    /\ UNCHANGED <<store, clock, cycleVars, adVars, purgeVars, matchVars, locVars, o_config, o_i, o_all, o_calls,
                   o_filtered, o_new, o_notified, idVars>>

NextOrch ==
    \/ OrchStart
    \/ OrchFetchCompany
    \/ OrchFilter
    \/ OrchFindNew
    \/ OrchAddJobs
    \/ OrchTerminalNotify
    \/ OrchWebhookNotify
    \/ OrchReturn

SpecOrch == Init /\ [][NextOrch]_vars

\* ------------------------------------------------ one call of fetch_jobs
InitAdapter ==
    /\ InitStore /\ InitCycles /\ InitOrchIdle /\ InitTools
    /\ a_name \in Adapters
    /\ a_pc = "primary"
    /\ a_jobs = <<>>
    /\ a_pos = IF a_name \in OffsetPaged \/ a_name = "Uber" THEN 0 ELSE None
    /\ a_log = <<>>
    /\ a_src = AnySource

\* One request to the primary endpoint with everything fetch_jobs does with
\* the answer: decode, parse the records, advance, test the break
\* conditions; or the except clause.
PrimaryStep ==
    /\ a_pc = "primary"
    /\ Len(a_log) < RequestBound(a_src)
    /\ \E resp \in Answers(a_name, a_src, a_pos), modern \in BOOLEAN :
         LET exc == raised_by(a_name, resp, modern)
             jobs2 == IF exc = "none" /\ parsed_count(a_name, resp) > 0
                      THEN Append(a_jobs, [ep |-> "primary",
                                           req |-> Len(a_log) + 1,
                                           n |-> parsed_count(a_name, resp)])
                      ELSE a_jobs
             pos2 == IF exc = "none" THEN next_pos(a_name, a_pos, resp)
                     ELSE a_pos
         IN /\ a_log' = Append(a_log, [ep |-> "primary", pos |-> a_pos,
                                       resp |-> resp, exc |-> exc])
            /\ a_jobs' = jobs2
            /\ a_pos' = pos2
            /\ a_pc' = IF exc = "none"
                       THEN (IF continues(a_name, resp, jobs2, pos2)
                             THEN "primary" ELSE "returned")
                       ELSE IF caught(a_name, exc)
                       THEN (IF a_name \in WithFallback
                             THEN "fallback" ELSE "returned")
                       ELSE "raised"
    /\ UNCHANGED <<store, clock, cycleVars, orchVars, purgeVars, matchVars, locVars, a_name, a_src, idVars>>

\* GoogleScraper / StripeScraper / AnthropicScraper / RampScraper.fetch_jobs
SingleShotFetch ==
    /\ a_name \in SingleShot
    /\ PrimaryStep
\* AmazonScraper / SalesforceScraper / PayPalScraper.fetch_jobs
OffsetPageFetch ==
    /\ a_name \in OffsetPaged
    /\ PrimaryStep
\* UberScraper.fetch_jobs, the try block
UberPageFetch ==
    /\ a_name = "Uber"
    /\ PrimaryStep
\* MetaScraper.fetch_jobs, the try block
MetaPageFetch ==
    /\ a_name = "Meta"
    /\ PrimaryStep

\* UberScraper._fetch_jobs_alternate, called from the except clause.
UberFetchAlternate ==
    /\ a_pc = "fallback"
    /\ a_name = "Uber"
    /\ \E resp \in FallbackResponses("Uber"), modern \in BOOLEAN :
         LET exc == raised_by("Uber", resp, modern)
             fb == IF exc = "none" /\ resp.n > 0
                   THEN <<[ep |-> "fallback", req |-> Len(a_log) + 1,
                           n |-> resp.n]>>
                   ELSE <<>>
         IN /\ a_log' = Append(a_log, [ep |-> "fallback", pos |-> None,
                                       resp |-> resp, exc |-> exc])
            /\ IF exc = "none" \/ caught("Uber", exc)
               THEN /\ a_jobs' = jobs_after_fallback(a_jobs, fb)
                    /\ a_pc' = "returned"
               ELSE /\ a_jobs' = a_jobs
                    /\ a_pc' = "raised"
    /\ UNCHANGED <<store, clock, cycleVars, orchVars, purgeVars, matchVars, locVars, a_name, a_pos, a_src, idVars>>

\* MetaScraper._fetch_jobs_fallback, called from the except clause: whatever
\* the answer, the empty list is returned.
MetaFetchFallback ==
    /\ a_pc = "fallback"
    /\ a_name = "Meta"
    /\ \E resp \in FallbackResponses("Meta") :
         a_log' = Append(a_log, [ep |-> "fallback", pos |-> None,
                                 resp |-> resp,
                                 exc |-> raised_by("Meta", resp, TRUE)])
    /\ a_jobs' = jobs_after_fallback(a_jobs, <<>>)
    /\ a_pc' = "returned"
    /\ UNCHANGED <<store, clock, cycleVars, orchVars, purgeVars, matchVars, locVars, a_name, a_pos, a_src, idVars>>

NextAdapter ==
    \/ SingleShotFetch
    \/ OffsetPageFetch
    \/ UberPageFetch
    \/ MetaPageFetch
    \/ UberFetchAlternate
    \/ MetaFetchFallback

SpecAdapter == InitAdapter /\ [][NextAdapter]_vars

\* ------------------- fetch_jobs against a source that never signals the end
InitRunaway ==
    /\ InitStore /\ InitCycles /\ InitOrchIdle /\ InitTools
    /\ a_name \in Paginating
    /\ a_pc = "primary"
    /\ a_jobs = <<>>
    /\ a_pos = IF a_name \in OffsetPaged \/ a_name = "Uber" THEN 0 ELSE None
    /\ a_log = <<>>
    /\ a_src \in RunawaySources
    /\ a_name \notin OffsetPaged => a_src.total = 0

NextRunaway ==
    \/ OffsetPageFetch
    \/ UberPageFetch
    \/ MetaPageFetch

\* fetch_jobs is sequential code: while its loop has a next iteration, that
\* iteration is run.
SpecRunaway == InitRunaway /\ [][NextRunaway]_vars /\ WF_vars(NextRunaway)

\* ------------- fetch_jobs against endless pages without a parseable record
InitBarren ==
    /\ InitStore /\ InitCycles /\ InitOrchIdle /\ InitTools
    /\ a_name \in {"Amazon", "Salesforce", "Meta"}
    /\ a_pc = "primary"
    /\ a_jobs = <<>>
    /\ a_pos = IF a_name \in OffsetPaged THEN 0 ELSE None
    /\ a_log = <<>>
    /\ a_src \in BarrenSources(a_name)

NextBarren ==
    \/ OffsetPageFetch
    \/ MetaPageFetch

\* Sequential code, as above: the next iteration of the loop is run.
SpecBarren == InitBarren /\ [][NextBarren]_vars /\ WF_vars(NextBarren)

\* ------------------------------ fetch_jobs against pages of mixed records
\* The adapters that read JSON records (the sitemap of Google holds XML
\* elements).
InitRecords ==
    /\ InitStore /\ InitCycles /\ InitOrchIdle /\ InitTools
    /\ a_name \in Adapters \ {"Google"}
    /\ a_pc = "primary"
    /\ a_jobs = <<>>
    /\ a_pos = IF a_name \in OffsetPaged \/ a_name = "Uber" THEN 0 ELSE None
    /\ a_log = <<>>
    /\ a_src = RecordsSource

NextRecords ==
    \/ SingleShotFetch
    \/ OffsetPageFetch
    \/ UberPageFetch
    \/ MetaPageFetch

SpecRecords == InitRecords /\ [][NextRecords]_vars

\* ------------------------- fetch_jobs against records with unparseable dates
InitDates ==
    /\ InitStore /\ InitCycles /\ InitOrchIdle /\ InitTools
    /\ a_name \in Adapters \ {"Google"}
    /\ a_pc = "primary"
    /\ a_jobs = <<>>
    /\ a_pos = IF a_name \in OffsetPaged \/ a_name = "Uber" THEN 0 ELSE None
    /\ a_log = <<>>
    /\ a_src = DatesSource

SpecDates == InitDates /\ [][NextRecords]_vars

\* --------------------------------- fetch_jobs against a well-behaved source
InitPaged ==
    /\ InitStore /\ InitCycles /\ InitOrchIdle /\ InitTools
    /\ a_name \in OffsetPaged
    /\ a_pc = "primary"
    /\ a_jobs = <<>>
    /\ a_pos = 0
    /\ a_log = <<>>
    /\ a_src \in PagedSources

NextPaged == OffsetPageFetch

SpecPaged == InitPaged /\ [][NextPaged]_vars

\* ------------------------------------- the dashboard's resume matching
InitMatch ==
    /\ InitStore /\ InitCycles /\ InitOrchIdle /\ InitAdapterIdle /\ InitLocIdle
    /\ InitIdIdle
    /\ m_pc = "input"
    /\ m_resume \in ResumeTexts
    /\ m_desc \in DescriptionTexts
    /\ m_result = None
    /\ m_prev = None

\* score_jobs: score_job(resume_text, job.description or "") for a posting.
ScoreJob ==
    /\ m_pc \in {"input", "extended"}
    /\ m_result' = score_job(m_resume, m_desc)
    /\ m_pc' = IF m_pc = "input" THEN "scored" ELSE "rescored"
    /\ UNCHANGED <<store, clock, cycleVars, orchVars, adVars, purgeVars,
                   locVars, m_resume, m_desc, m_prev, idVars>>

\* The user appends keywords to the resume text; the posting stays.
ExtendResume ==
    /\ m_pc = "scored"
    /\ \E sep \in Separators, keywords \in AddedKeywords :
           m_resume' = m_resume \o sep \o keywords
    /\ m_prev' = [resume |-> m_resume, result |-> m_result]
    /\ m_pc' = "extended"
    /\ UNCHANGED <<store, clock, cycleVars, orchVars, adVars, purgeVars,
                   locVars, m_desc, m_result, idVars>>

NextMatch == ScoreJob \/ ExtendResume

SpecMatch == InitMatch /\ [][NextMatch]_vars

\* ---------------------------------------- normalising a posting's location
InitLoc ==
    /\ InitStore /\ InitCycles /\ InitOrchIdle /\ InitAdapterIdle
    /\ InitMatchIdle
    /\ InitIdIdle
    /\ l_pc = "input"
    /\ l_raw \in RawLocations
    /\ l_out = None
    /\ l_again = None

\* normalize_location(raw) on the location of a posting.
Normalize ==
    /\ l_pc = "input"
    /\ l_out' = normalize_location(l_raw)
    /\ l_pc' = "normalized"
    /\ UNCHANGED <<store, clock, cycleVars, orchVars, adVars, purgeVars,
                   matchVars, l_raw, l_again, idVars>>

\* normalize_location on a location that was normalised before.
Renormalize ==
    /\ l_pc = "normalized"
    /\ l_again' = normalize_location(l_out)
    /\ l_pc' = "renormalized"
    /\ UNCHANGED <<store, clock, cycleVars, orchVars, adVars, purgeVars,
                   matchVars, l_raw, l_out, idVars>>

NextLoc == Normalize \/ Renormalize

SpecLoc == InitLoc /\ [][NextLoc]_vars

\* ------------------------------------ the identity of a PayPal posting
\* The secrets an interpreter may draw at start-up to key the hash of str
\* (hash randomisation, the default of Python 3).
HashSeeds == {"k1", "k2"}

\* str(hash(text)): the decimal text of the keyed hash, written here as the
\* key and the text it was computed from; hash("") is 0 under every key.
\* Two texts or two keys are taken to give different values.
str_hash(seed, text) ==
    IF text = "" THEN "0" ELSE seed \o "#" \o text

\* dict.get(key, default) on a raw record; keys holds the keys present.
dict_get(data, key, default) ==
    IF key \in data.keys THEN data[key] ELSE default

\* path.split("/")[-1]
last_segment(path) ==
    LET slashes == {i \in 1..Len(path) : char_at(path, i) = "/"}
        from == IF slashes = {} THEN 1
                ELSE 1 + CHOOSE i \in slashes : \A k \in slashes : k <= i
    IN SubSeq(path, from, Len(path))

\* PayPalScraper._parse_job: the id of the posting.
paypal_job_id(data, seed) ==
    LET external_path == dict_get(data, "externalPath", "")
    IN IF external_path # "" THEN last_segment(external_path)
       ELSE str_hash(seed, dict_get(data, "title", ""))

\* PayPalScraper._parse_job on a well-formed record without postedOn and
\* categoryHierarchy, in an interpreter keyed with seed, at time now.
paypal_parse_job(data, seed, now) ==
    LET external_path == dict_get(data, "externalPath", "")
        base_url == "https://paypal.wd1.myworkdayjobs.com/jobs"
    IN [id |-> paypal_job_id(data, seed), company |-> "PayPal",
        title |-> dict_get(data, "title", "Unknown"),
        location |-> dict_get(data, "locationsText", "Unknown"),
        url |-> IF external_path # "" THEN base_url \o external_path
                ELSE base_url,
        department |-> "", posted_date |-> None, first_seen |-> now,
        description |-> None]

\* Raw records of the Workday source: with externalPath, without it, and
\* without externalPath and title.
PayPalRecords ==
    <<[keys |-> {"externalPath", "title", "locationsText"},
       externalPath |-> "/job/San-Jose/Product-Manager_R0123",
       title |-> "Product Manager", locationsText |-> "San Jose"],
      [keys |-> {"title", "locationsText"}, externalPath |-> "",
       title |-> "Data Analyst", locationsText |-> "Austin"],
      [keys |-> {"locationsText"}, externalPath |-> "", title |-> "",
       locationsText |-> "Remote"]>>

\* What the source lists in one cycle.
PayPalListings ==
    {<<PayPalRecords[1]>>, <<PayPalRecords[1], PayPalRecords[2]>>,
     <<PayPalRecords[2], PayPalRecords[3]>>,
     <<PayPalRecords[1], PayPalRecords[2], PayPalRecords[3]>>}

\* The ids _parse_job of an adapter may give the Job it builds from a record
\* without the field(s) the id is taken from, for the adapters that build
\* one: "" is the default of data.get in Amazon and Uber and the default
\* first bullet field in Salesforce; PayPal hashes the title.
idless_ids(name) ==
    CASE name \in {"Amazon", "Uber", "Salesforce"} -> {""}
      [] name = "PayPal" ->
            {paypal_job_id(PayPalRecords[n], seed) :
                n \in {2, 3}, seed \in HashSeeds}
      [] OTHER -> {}

\* A Python interpreter starts (cmd_run from cron, or cmd_schedule).
InterpreterStart ==
    /\ h_pc = "down"
    /\ h_seed' \in HashSeeds
    /\ h_pc' = "up"
    /\ UNCHANGED <<store, clock, cycleVars, orchVars, adVars, purgeVars,
                   matchVars, locVars, h_log>>

\* One cycle of run_job_check with PayPal as the only company and no
\* filters: fetch and parse, find_new_jobs, add_jobs when something is new.
PayPalCycle ==
    /\ h_pc = "up"
    /\ clock < MaxCycles
    /\ clock' = clock + 1
    /\ \E listing \in PayPalListings :
         LET jobs == [i \in DOMAIN listing |->
                         paypal_parse_job(listing[i], h_seed, clock + 1)]
             new == find_new_jobs(store, jobs)
         IN /\ store' = IF new # <<>> THEN add_jobs(store, new).store
                        ELSE store
            /\ h_log' = Append(h_log, [records |-> listing, jobs |-> jobs,
                                       new |-> new])
    /\ UNCHANGED <<cycleVars, orchVars, adVars, purgeVars, matchVars,
                   locVars, h_pc, h_seed>>

\* The interpreter exits.
InterpreterExit ==
    /\ h_pc = "up"
    /\ h_pc' = "down"
    /\ h_seed' = ""
    /\ UNCHANGED <<store, clock, cycleVars, orchVars, adVars, purgeVars,
                   matchVars, locVars, h_log>>

NextIdentity == InterpreterStart \/ PayPalCycle \/ InterpreterExit

SpecIdentity == Init /\ [][NextIdentity]_vars

\* ------------------------------------------------ properties of the store
Range(f) == {f[i] : i \in DOMAIN f}
PairOf(x) == <<x.company, x.id>>
StoredPairs(st) == {PairOf(r) : r \in st}
SingleSource(jobs) ==
    jobs # <<>> /\ \A i \in DOMAIN jobs : jobs[i].company = jobs[1].company

\* C1 (novelty convergence): when the store holds no posting of source s,
\* find_new_jobs of a batch of s-postings returns the whole batch; once
\* add_jobs has persisted that batch, find_new_jobs of the same batch returns
\* the empty list.
C1_StepReturnsWholeBatch(p) ==
    (/\ pc[p] = "finding" /\ pc'[p] = "found"
     /\ SingleSource(batch[p])
     /\ \A r \in store : r.company # batch[p][1].company)
    => new_jobs'[p] = batch[p]
C1_AfterPersistNothingNew(p) ==
    (pc[p] = "added" /\ SingleSource(batch[p]) /\ new_jobs[p] = batch[p])
    => find_new_jobs(store, batch[p]) = <<>>
C1_NoveltyConvergence ==
    /\ [][\A p \in Procs : C1_StepReturnsWholeBatch(p)]_vars
    /\ [](\A p \in Procs : C1_AfterPersistNothingNew(p))
\* A cycle found a two-posting batch of one source entirely new and persisted
\* it: every stored row of that source was written by this cycle.
C1_Witness ==
    \E p \in Procs :
        /\ pc[p] = "added" /\ Len(batch[p]) = 2 /\ SingleSource(batch[p])
        /\ new_jobs[p] = batch[p]
        /\ \A r \in store : r.company = batch[p][1].company
              => r.first_seen = isoformat(batch[p][1].first_seen)

\* C2 (idempotent insert): add_jobs raises nothing, its returned list holds
\* no posting whose pair was stored before the call, every posting of the
\* call whose pair was absent is stored afterwards, and the returned list is
\* exactly what the call inserted.
C2_Step(p) ==
    (pc[p] = "found" /\ pc'[p] # "found" /\ new_jobs[p] # <<>>)
    => /\ pc'[p] = "added"
       /\ \A j \in Range(added'[p]) : PairOf(j) \notin StoredPairs(store)
       /\ \A j \in Range(new_jobs[p]) :
              PairOf(j) \notin StoredPairs(store)
                  => PairOf(j) \in StoredPairs(store')
       /\ {row_of(j) : j \in Range(added'[p])} = store' \ store
       /\ Len(added'[p]) = Cardinality(store' \ store)
C2_IdempotentInsert == [][\A p \in Procs : C2_Step(p)]_vars
\* add_jobs met a stored pair and still inserted another posting.
C2_Witness ==
    \E p \in Procs :
        /\ pc[p] = "added" /\ added[p] # <<>>
        /\ Len(added[p]) < Len(new_jobs[p])

\* C3 (stored postings are never overwritten): every row of the jobs table
\* is still there, field for field, after any step of any ingestion cycle.
C3_NeverOverwritten == [][\A r \in store : r \in store']_vars
\* add_jobs was called with a posting whose pair is stored with other content.
C3_Witness ==
    \E p \in Procs :
        /\ pc[p] = "added"
        /\ \E j \in Range(new_jobs[p]) :
             \E r \in store : PairOf(r) = PairOf(j) /\ r.title # j.title

\* C4 (a reader sees the first description): after a cycle has inserted a
\* posting, get_job returns it with the description that cycle fetched.
C4_ReaderSeesFirstDescription ==
    \A p \in Procs :
        pc[p] = "added" =>
            \A j \in Range(added[p]) :
                /\ get_job(store, j.id, j.company) # {}
                /\ \A g \in get_job(store, j.id, j.company) :
                       g.description = j.description

\* C5 (race between novelty check and insert): under every interleaving the
\* jobs table holds at most one row per (company, id), no add_jobs call
\* fails, and a posting that add_jobs did not insert is represented by the
\* row another writer stored.
C5_UniquePairs ==
    /\ \A r1, r2 \in store : PairOf(r1) = PairOf(r2) => r1 = r2
    /\ \A p \in Procs : pc[p] # "failed"
    /\ \A p \in Procs :
          pc[p] = "added" =>
              \A j \in Range(new_jobs[p]) :
                  Cardinality({r \in store : PairOf(r) = PairOf(j)}) = 1
\* The novelty check of p said "new" for a pair that another cycle inserted
\* before p's add_jobs ran.
C5_Witness ==
    \E p \in Procs :
        /\ pc[p] = "added"
        /\ \E j \in Range(new_jobs[p]) :
             \E r \in store :
                 /\ PairOf(r) = PairOf(j)
                 /\ r.first_seen # isoformat(j.first_seen)

\* ----------------------------------------- properties of the orchestrator
RECURSIVE ConcatReturned(_, _)
ConcatReturned(calls, i) ==
    IF i > Len(calls) THEN <<>>
    ELSE (IF calls[i].outcome.raised THEN <<>> ELSE calls[i].outcome.jobs)
         \o ConcatReturned(calls, i + 1)
RegisteredKeys(companies, n) ==
    LET keys == [i \in 1..n |-> lower_name(companies[i])]
    IN SelectSeq(keys, LAMBDA k : k \in SCRAPERS)

\* C7 (failure isolation): fetch_all_jobs invokes fetch_jobs exactly once for
\* every entry of config.companies that has a registered adapter, in order,
\* whatever earlier adapters did and whatever unknown names precede it, and
\* all_jobs is the concatenation of the lists of the adapters that returned.
C7_FailureIsolation ==
    /\ o_i <= Len(o_config.companies) + 1
    /\ (o_pc \notin {"fetch", "idle"} => o_i = Len(o_config.companies) + 1)
    /\ o_pc # "idle" =>
        /\ [k \in DOMAIN o_calls |-> o_calls[k].key]
              = RegisteredKeys(o_config.companies, o_i - 1)
        /\ o_all = ConcatReturned(o_calls, 1)
\* The loop is over; an adapter raised after an unknown name was skipped, and
\* a later adapter still delivered postings.
C7_Witness ==
    /\ o_pc = "find"
    /\ Len(o_calls) < Len(o_config.companies)
    /\ \E k \in DOMAIN o_calls :
         /\ o_calls[k].outcome.raised
         /\ \E m \in DOMAIN o_calls : m > k /\ o_calls[m].outcome.jobs # <<>>
    /\ o_all # <<>>

\* C8 (nothing is fatal to a cycle): no exception leaves run_job_check, and
\* what it returns to its caller carries the per-source success / failure
\* counts.
C8_CycleCompletesAndReports ==
    /\ o_pc # "aborted"
    /\ o_result # <<>> => o_result[1] # None

\* ---------------------------------------------- properties of the adapters
\* The chunks parsed from the requests lo..hi to the primary endpoint.
RECURSIVE ParsedIn(_, _, _)
ParsedIn(log, lo, hi) ==
    IF lo > hi THEN <<>>
    ELSE IF lo = hi
    THEN (IF log[lo].ep = "primary" /\ log[lo].exc = "none"
             /\ parsed_count(a_name, log[lo].resp) > 0
          THEN <<[ep |-> "primary", req |-> lo,
                  n |-> parsed_count(a_name, log[lo].resp)]>>
          ELSE <<>>)
    ELSE LET mid == (lo + hi) \div 2
         IN ParsedIn(log, lo, mid) \o ParsedIn(log, mid + 1, hi)
\* The chunks parsed from the first k requests to the primary endpoint.
ParsedFromPrimary(log, k) == ParsedIn(log, 1, k)
FallbackCalls == {k \in DOMAIN a_log : a_log[k].ep = "fallback"}

\* C6 (no adapter throws past its boundary): whatever the source answers,
\* fetch_jobs does not raise.
C6_NoAdapterRaises == a_pc # "raised"

\* C9 (partial results on transport failure): when a paginating adapter has
\* returned after request k > 1 to its primary endpoint failed with a
\* transport error, it returns what it parsed from requests 1..k-1.
C9_PartialResultsKept ==
    (a_name \in Paginating /\ a_pc = "returned") =>
        \A k \in DOMAIN a_log :
            (/\ k > 1
             /\ a_log[k].ep = "primary"
             /\ a_log[k].resp.kind \in {"conn_error", "http_error"})
            => a_jobs = ParsedFromPrimary(a_log, k - 1)

\* C10 (fallback chain of Uber and Meta): the secondary endpoint is asked at
\* most once, and only right after a request to the primary endpoint raised
\* a RequestException; when it was asked, fetch_jobs returns exactly what the
\* fallback produced; when the primary loop ended without raising, it was
\* not asked.
C10_FallbackChain ==
    a_name \in WithFallback =>
        /\ Cardinality(FallbackCalls) <= 1
        /\ \A k \in FallbackCalls :
              /\ k > 1
              /\ a_log[k - 1].ep = "primary"
              /\ a_log[k - 1].exc = "RequestException"
        /\ (a_pc = "returned" /\ FallbackCalls # {}) =>
              \A k \in FallbackCalls :
                  a_jobs = IF a_name = "Uber" /\ a_log[k].exc = "none"
                              /\ a_log[k].resp.n > 0
                           THEN <<[ep |-> "fallback", req |-> k,
                                   n |-> a_log[k].resp.n]>>
                           ELSE <<>>
        /\ (/\ a_pc = "returned" /\ a_log # <<>>
            /\ \A k \in DOMAIN a_log :
                  a_log[k].ep = "primary" => a_log[k].exc = "none")
           => FallbackCalls = {}
\* Uber parsed postings from its primary endpoint, a later request failed,
\* and the Greenhouse fallback delivered postings.
C10_Witness ==
    /\ a_name = "Uber"
    /\ a_pc = "returned"
    /\ ParsedFromPrimary(a_log, Len(a_log)) # <<>>
    /\ \E k \in FallbackCalls : a_log[k].resp.n > 0 /\ a_log[k].exc = "none"

\* The safety limit of the adapter has been passed.
AtSafetyCap ==
    CASE a_name \in {"Amazon", "Salesforce", "Meta"} -> JobsLen(a_jobs) > JobsCap
      [] a_name = "PayPal" -> a_pos > PayPalOffsetCap
      [] a_name = "Uber" -> a_pos > UberPageCap

\* C11 (pagination termination): against a source that never signals
\* completion, fetch_jobs of every paginating adapter eventually returns; it
\* has then passed its safety limit and returns every posting of every page
\* it was served.
C11_PaginationTerminates ==
    <>(/\ a_pc = "returned"
       /\ AtSafetyCap
       /\ a_jobs = ParsedFromPrimary(a_log, Len(a_log))
       /\ JobsLen(a_jobs) = Len(a_log) * FullPage(a_name))
\* Salesforce, whose pages hold 20 records, returned after 251 requests.
C11_Witness ==
    /\ a_src.mode = "runaway"
    /\ a_name = "Salesforce"
    /\ a_pc = "returned"
    /\ Len(a_log) = 251

\* ------------------------------------------- properties of the novelty check
\* The postings of jobs whose pair has no row in st, in the order of jobs.
Unstored(st, jobs) ==
    SelectSeq(jobs, LAMBDA j : PairOf(j) \notin StoredPairs(st))
Count(seq, x) == Cardinality({i \in DOMAIN seq : seq[i] = x})
SameBag(s1, s2) ==
    \A x \in Range(s1) \cup Range(s2) : Count(s1, x) = Count(s2, x)

\* C12 (exact novelty): each query of find_new_jobs appends exactly the
\* postings of that company whose (company, id) pair has no row at that
\* moment; a call that no other writer interleaves with returns exactly the
\* postings of the batch whose pair has no row, as many times as the batch
\* holds them, for batches of one or several sources; and when a call has
\* completed, every posting of the batch whose pair still has no row is in
\* its result, which holds postings of the batch only.
C12_QueryStep(p) ==
    (pc[p] = "finding" /\ todo'[p] # todo[p])
    => new_jobs'[p] = new_jobs[p] \o
          Unstored(store, jobs_of_company(batch[p], Head(todo[p])))
C12_ExactlyTheUnstored ==
    /\ [][\A p \in Procs : C12_QueryStep(p)]_vars
    /\ [](\A b \in Batches(clock) :
             SameBag(find_new_jobs(store, b), Unstored(store, b)))
    /\ [](\A p \in Procs :
             pc[p] = "found" =>
                /\ Range(Unstored(store, batch[p])) \subseteq Range(new_jobs[p])
                /\ Range(new_jobs[p]) \subseteq Range(batch[p]))
\* find_new_jobs completed on a batch of two sources: the posting of one
\* source is stored and left out, the posting of the other is returned.
C12_Witness ==
    \E p \in Procs :
        /\ pc[p] = "found"
        /\ \E i, k \in DOMAIN batch[p] :
              /\ batch[p][i].company # batch[p][k].company
              /\ PairOf(batch[p][i]) \in StoredPairs(store)
              /\ batch[p][i] \notin Range(new_jobs[p])
              /\ batch[p][k] \in Range(new_jobs[p])

\* -------------------------------------------- properties of the request log
PrimaryCalls == {k \in DOMAIN a_log : a_log[k].ep = "primary"}
\* After a request has failed, no later request goes to the same endpoint.
NoRequestAfterFailure ==
    \A i, k \in DOMAIN a_log :
        (i < k /\ a_log[i].exc # "none") => a_log[k].ep # a_log[i].ep

C14_PurgeCall ==
    /\ store' \subseteq store
    /\ store \ store' =
          {r \in store : str_lower(r.company) = str_lower(d_ret'.company)}
    /\ \A r \in store :
          str_lower(r.company) # str_lower(d_ret'.company) => r \in store'
    /\ d_ret'.rowcount = Cardinality(store \ store')
C14_PurgeScoped ==
    [][/\ (\E r \in store : r \notin store') =>
            (cycleVars' = cycleVars /\ d_ret' # None /\ C14_PurgeCall)
       /\ d_ret' # d_ret => C14_PurgeCall
       /\ cycleVars' # cycleVars => store \subseteq store']_vars
\* A purge by a name in other letter case removed the two rows of one source
\* and the row of the other source is still stored.
C14_Witness ==
    /\ d_ret # None
    /\ d_ret.company = "ACME" /\ d_ret.rowcount = 2
    /\ \E r \in store : r.company = "globex"
    /\ \A r \in store : r.company # "acme"

\* C15 (per-record skip): whatever malformed record a page holds, fetch_jobs
\* does not raise, and what it has collected is exactly the well-formed
\* records of the pages it was served: the malformed record is left out and
\* no well-formed record of the same or of a later page is lost.
C15_PerRecordSkip ==
    /\ a_pc # "raised"
    /\ a_jobs = SelectSeq([k \in DOMAIN a_log |->
                              [ep |-> "primary", req |-> k,
                               n |-> a_log[k].resp.n]],
                          LAMBDA c : c.n > 0)

\* The source records a call has collected: the chunk parsed from the
\* request at offset o holds the records o .. o + n - 1.
RecordsReturned ==
    UNION {{a_log[a_jobs[c].req].pos + i : i \in 0..(a_jobs[c].n - 1)} :
              c \in DOMAIN a_jobs}
\* The request k is one after which the loop ends: the page is empty or the
\* advanced offset has reached the total.
LastRequest(k) ==
    a_log[k].resp.n = 0 \/ k * limit(a_name) >= a_src.total

\* C20 (pagination completeness): against a source with a constant total T
\* up to 5000 that serves pages by offset, Amazon, PayPal and Salesforce
\* request the offsets 0, limit, 2 * limit, ... in this order, raise
\* nothing, stop at the first request with an empty page or after which
\* offset >= T, and return the T records, each exactly once.
C20_PaginationComplete ==
    /\ a_pc # "raised"
    /\ \A k \in DOMAIN a_log : a_log[k].pos = (k - 1) * limit(a_name)
    /\ \A k \in DOMAIN a_log : k < Len(a_log) => ~LastRequest(k)
    /\ a_pc = "primary" => (a_log = <<>> \/ ~LastRequest(Len(a_log)))
    /\ a_pc = "returned" =>
          /\ a_log # <<>> /\ LastRequest(Len(a_log))
          /\ RecordsReturned = 0..(a_src.total - 1)
          /\ JobsLen(a_jobs) = a_src.total
\* Salesforce returned 130 records after seven requests, the last page
\* holding ten.
C20_Witness ==
    /\ a_src.mode = "paged" /\ a_src.total = 130
    /\ a_name = "Salesforce"
    /\ a_pc = "returned"
    /\ Len(a_log) = 7 /\ a_log[7].resp.n = 10
    /\ JobsLen(a_jobs) = 130

\* ------------------------------------------ properties of resume matching
\* seq lists the members of S once each, in ascending order.
SortedListOf(seq, S) ==
    /\ Len(seq) = Cardinality(S)
    /\ {seq[i] : i \in DOMAIN seq} = S
    /\ \A i \in DOMAIN seq : \A j \in DOMAIN seq :
           i < j => str_less(seq[i], seq[j])

\* s is an integer nearest to num / den.
NearestTo(s, num, den) ==
    /\ 2 * (s * den - num) <= den
    /\ 2 * (num - s * den) <= den

\* C16: score_job(resume, description) returns score 0, level N/A and no
\* matched keywords when the description is empty or one of the keyword
\* sets R (of the resume) and J (of the description) is empty; otherwise the
\* score is 100 * |R \cap J| / |J| rounded to a nearest integer and capped at
\* 100, the level is Strong from 70, Good from 40 and Low below, and the
\* matched keywords are R \cap J in sorted order. The score always lies in
\* 0..100.
C16_ScoreContract ==
    m_pc \in {"scored", "rescored"} =>
        LET R == extract_keywords(m_resume)
            J == extract_keywords(m_desc)
            score == m_result.score
        IN /\ score \in 0..100
           /\ IF m_desc = "" \/ R = {} \/ J = {}
              THEN m_result = [score |-> 0, level |-> "N/A",
                               matched_keywords |-> <<>>]
              ELSE /\ NearestTo(score, 100 * Cardinality(R \cap J),
                                Cardinality(J))
                   /\ m_result.level = (IF score >= 70 THEN "Strong"
                                        ELSE IF score >= 40 THEN "Good"
                                        ELSE "Low")
                   /\ SortedListOf(m_result.matched_keywords, R \cap J)

\* A resume covering two of the three keywords of a description was scored
\* 67, Good.
C16_Witness ==
    /\ m_pc = "rescored"
    /\ Cardinality(extract_keywords(m_desc)) = 3
    /\ m_result.score = 67
    /\ m_result.level = "Good"
    /\ Len(m_result.matched_keywords) = 2

\* C17: for a fixed description, when keywords are appended to the resume
\* text and the keyword set of the new text contains that of the old one,
\* the new score is at least the old score.
C17_MonotonicScoring ==
    (/\ m_pc = "rescored"
     /\ extract_keywords(m_prev.resume) \subseteq extract_keywords(m_resume))
        => m_result.score >= m_prev.result.score

\* Appended keywords that kept every old keyword raised the score.
C17_Witness ==
    /\ m_pc = "rescored"
    /\ extract_keywords(m_prev.resume) \subseteq extract_keywords(m_resume)
    /\ extract_keywords(m_prev.resume) # extract_keywords(m_resume)
    /\ m_prev.result.score > 0
    /\ m_result.score > m_prev.result.score

\* ------------------------------------ properties of location normalisation
\* C18: normalize_location is idempotent: normalising a normalised location
\* gives it back, for aliases, country-code prefixes and remote indicators
\* as for any other location string.
C18_Idempotent ==
    l_pc = "renormalized" => l_again = l_out

\* C19: the raw location "CA-Remote-British Columbia" normalises to "BC":
\* the region is abbreviated to its state code and no " (Remote)" suffix is
\* attached.
C19_RemoteRegionAbbreviated ==
    (l_pc # "input" /\ l_raw = "CA-Remote-British Columbia") => l_out = "BC"

\* ------------------------------------------ properties of the safety caps
\* C21: the safety cap is a maximum posting count: whatever the source
\* returns, fetch_jobs of the Amazon, Salesforce and Meta adapters never
\* returns more than 5,000 postings.
C21_CapIsMaximum ==
    (a_name \in {"Amazon", "Salesforce", "Meta"} /\ a_pc = "returned")
        => JobsLen(a_jobs) <= JobsCap

\* ------------------------------------------ properties of date degradation
\* C22: when the posted-date field of a record is present but cannot be
\* parsed (unknown format, wrong type, out-of-range timestamp), the adapter
\* still emits the posting, with posted_date unset: the record is neither
\* skipped nor does its parsing raise.
C22_DateDegrades ==
    \A k \in DOMAIN a_log :
        (a_log[k].resp.kind = "object" /\ a_log[k].resp.bad \in DateDefects)
            => /\ a_log[k].exc = "none"
               /\ parsed_count(a_name, a_log[k].resp) = page_len(a_log[k].resp)

\* ------------------------------------------------ filtering before novelty
\* The test a configured filter list puts to a text: empty list, or some
\* entry occurs in the text, letter case ignored.
ListAdmits(list, text) ==
    list = <<>> \/ \E k \in DOMAIN list : contains(lower(text), lower(list[k]))
Admitted(job, config) ==
    /\ ListAdmits(config.keywords, job.title)
    /\ ListAdmits(config.locations, job.location)
Filtered == o_pc \in {"find", "add", "terminal", "webhook", "done", "aborted"}

\* C23 (filtering precedes novelty): what run_job_check hands to
\* find_new_jobs is the fetched postings whose title holds a configured
\* keyword (if any is configured) and whose location holds a configured
\* location (if any is configured), in order, letter case ignored; with no
\* filter configured it is everything fetched; the postings found new are
\* among those, and every row a cycle writes to the store is the row of a
\* fetched posting that the filters admit.
C23_FilteringPrecedesNovelty ==
    /\ [](Filtered =>
            /\ o_filtered = SelectSeq(o_all, LAMBDA j : Admitted(j, o_config))
            /\ (o_config.keywords = <<>> /\ o_config.locations = <<>>
                    => o_filtered = o_all)
            /\ \A i \in DOMAIN o_new :
                   \E k \in DOMAIN o_filtered : o_new[i] = o_filtered[k])
    /\ [][\A r \in store' \ store :
              \E k \in DOMAIN o_all :
                  /\ Admitted(o_all[k], o_config)
                  /\ row_of(o_all[k]) = r]_vars
\* A cycle with both filters configured fetched a posting whose title passes
\* and whose location does not, stored another one, and left the first out
\* of the store.
C23_Witness ==
    /\ o_pc = "terminal"
    /\ o_config.keywords # <<>> /\ o_config.locations # <<>>
    /\ \E k \in DOMAIN o_all :
         /\ ListAdmits(o_config.keywords, o_all[k].title)
         /\ ~ListAdmits(o_config.locations, o_all[k].location)
         /\ row_of(o_all[k]) \notin store
    /\ \E k \in DOMAIN o_all : row_of(o_all[k]) \in store

\* ------------------------------- remote re-attachment and the sentinel
\* The input of _is_remote: the stripped raw location after the dict-like
\* reduction.
Reduced(raw) == parsed_location(str_strip(raw))
\* What cleaning and the alias tables leave of it.
Rest(raw) == normalize_region(normalize_city(clean_location(Reduced(raw))))
MentionsRemote(text) == str_contains("remote", str_lower(text))

\* C24 as stated: an input with a remote indicator gives an output that
\* mentions remote, "<rest> (Remote)" whenever the cleaned rest is non-empty
\* and does not mention it, "Remote" when the rest is empty; an input
\* without indicator and with an empty rest gives "Unknown"; the output is
\* never empty.
C24_RestNonEmptyGetsSuffix ==
    l_pc # "input" =>
        /\ l_out # ""
        /\ is_remote(Reduced(l_raw)) =>
              /\ MentionsRemote(l_out)
              /\ (Rest(l_raw) # "" /\ ~MentionsRemote(Rest(l_raw)))
                    => l_out = Rest(l_raw) \o " (Remote)"
              /\ Rest(l_raw) = "" => l_out = "Remote"
        /\ (~is_remote(Reduced(l_raw)) /\ Rest(l_raw) = "") => l_out = "Unknown"

\* C24 (remote re-attachment and the Unknown sentinel): an input with a
\* remote indicator gives an output that mentions remote: "<rest> (Remote)"
\* when the cleaned rest is neither empty nor the sentinel "Unknown" and does
\* not mention it, exactly "Remote" when the rest is empty or the sentinel;
\* an input without indicator and with an empty rest gives "Unknown"; the
\* output is never the empty string.
C24_RemoteReattached ==
    l_pc # "input" =>
        /\ l_out # ""
        /\ is_remote(Reduced(l_raw)) =>
              /\ MentionsRemote(l_out)
              /\ (Rest(l_raw) \notin {"", "Unknown"}
                     /\ ~MentionsRemote(Rest(l_raw)))
                    => l_out = Rest(l_raw) \o " (Remote)"
              /\ Rest(l_raw) \in {"", "Unknown"} => l_out = "Remote"
        /\ (~is_remote(Reduced(l_raw)) /\ Rest(l_raw) = "") => l_out = "Unknown"
\* A remote indicator was detected and cleaning left the sentinel.
C24_Witness ==
    /\ l_pc = "normalized"
    /\ is_remote(Reduced(l_raw))
    /\ Rest(l_raw) = "Unknown"
    /\ l_out = "Remote"

\* -------------------------------------------- what the notifiers are handed
\* C25: in one cycle of run_job_check every posting handed to a notifier was
\* inserted into the store by the add_jobs call of that cycle (its row, with
\* the first_seen of the cycle, is in the store), and no (company, id) pair
\* occurs twice among the postings handed to a notifier, also when the
\* fetched batch holds two records with the same pair.
C25_NotifiedWereInserted ==
    \A n \in DOMAIN o_notified :
        LET jobs == o_notified[n].jobs
        IN /\ \A i \in DOMAIN jobs : row_of(jobs[i]) \in store
           /\ \A i, k \in DOMAIN jobs :
                  PairOf(jobs[i]) = PairOf(jobs[k]) => i = k

\* ------------------------------------------------- persist before notify
\* Every posting of the list has a row with its pair that this cycle wrote.
PersistedThisCycle(jobs) ==
    \A i \in DOMAIN jobs :
        \E r \in store : /\ PairOf(r) = PairOf(jobs[i])
                         /\ r.first_seen = isoformat(clock)

\* C26 (persist before notify): a notifier is called only after add_jobs has
\* returned, with the non-empty list find_new_jobs returned, whose postings
\* are persisted by then; when find_new_jobs returns the empty list the store
\* is not written and no notifier is called; a notifier that raises leaves
\* the postings of the cycle in the store.
C26_PersistBeforeNotify ==
    /\ [](/\ \A n \in DOMAIN o_notified :
                /\ o_notified[n].jobs = o_new
                /\ o_notified[n].jobs # <<>>
          /\ (o_new = <<>> => o_notified = <<>>)
          /\ (o_notified # <<>> \/ o_pc \in {"terminal", "webhook", "aborted"})
                => PersistedThisCycle(o_new))
    /\ [][/\ (o_notified' # o_notified /\ o_notified' # <<>>)
                => /\ o_pc \in {"terminal", "webhook"}
                   /\ PersistedThisCycle(o_new)
                   /\ store' = store
          /\ store' # store => (o_pc = "add" /\ o_new # <<>>)]_vars
\* A notifier raised after add_jobs had stored the new postings.
C26_Witness ==
    /\ o_pc = "aborted"
    /\ o_notified # <<>>
    /\ o_new # <<>>
    /\ PersistedThisCycle(o_new)

\* ------------------------------------------------------- stable identity
\* The cycles in which a raw record was reported as new.
ReportedNewIn(rec) ==
    {c \in DOMAIN h_log :
        \E i \in DOMAIN h_log[c].records :
            /\ h_log[c].records[i] = rec
            /\ \E k \in DOMAIN h_log[c].new :
                   h_log[c].new[k] = h_log[c].jobs[i]}

\* C27 (stable identity): the id derived for a raw record depends on the
\* record alone: the same record fetched in two cycles, of one interpreter
\* or of two, gets the same (company, id) pair, and over sequential cycles
\* without purge a record is reported as new at most once, records without
\* externalPath included.
C27_StableIdentity ==
    /\ \A c, d \in DOMAIN h_log :
         \A i \in DOMAIN h_log[c].records, k \in DOMAIN h_log[d].records :
             h_log[c].records[i] = h_log[d].records[k]
                 => PairOf(h_log[c].jobs[i]) = PairOf(h_log[d].jobs[k])
    /\ \A n \in DOMAIN PayPalRecords :
         Cardinality(ReportedNewIn(PayPalRecords[n])) <= 1

\* ------------------------------------------- the rows that belong to a source
\* C28: the store operations agree on the rows of a source: for every name c
\* and every store state, the ids get_known_job_ids(c) returns are the ids
\* of the postings get_all_jobs(company=c) returns, and those are the rows
\* delete_jobs_by_company(c) removes, also when the stored name differs from
\* c in letter case only.
C28_OperationsAgree ==
    \A c \in PurgeNames :
        LET listed == get_all_jobs(store, c)
            removed == store \ delete_jobs_by_company(store, c).store
        IN /\ get_known_job_ids(store, c) = {j.id : j \in listed}
           /\ {PairOf(j) : j \in listed} = {PairOf(r) : r \in removed}
           /\ Cardinality(listed) = Cardinality(removed)

BarrenCallGoesOn ==
    a_src.mode = "barren" =>
        /\ a_pc = "primary"
        /\ a_jobs = <<>>
        /\ \A k \in DOMAIN a_log :
               /\ a_log[k].exc = "none"
               /\ continues(a_name, a_log[k].resp, <<>>,
                            next_pos(a_name, a_log[k].pos, a_log[k].resp))

\* ------------------------------------------------------ non-empty identity
\* C30: every posting an adapter returns has a non-empty id: a record from
\* which no identifier can be obtained is skipped, never emitted with the
\* empty id.
C30_NonEmptyId ==
    \A k \in DOMAIN a_log :
        (/\ a_log[k].resp.kind = "object"
         /\ a_log[k].resp.bad = "no_id"
         /\ a_log[k].exc = "none")
            => \/ parsed_count(a_name, a_log[k].resp) = a_log[k].resp.n
               \/ "" \notin idless_ids(a_name)

====
